---------------------------- MODULE Spec2Model ----------------------------
(***************************************************************************)
(* A model of the go-mux/mux request router: the template compiler         *)
(* (regexp.go), the matchers (matcher.go), Route (route.go, the file kept  *)
(* as src/unnamed/part_000), Router (mux.go) and middleware (middleware.go)*)
(*                                                                         *)
(* Strings are sequences of lexemes.  A lexeme is one byte ("/", "a", "{") *)
(* or one regular-expression atom written by the caller inside a variable  *)
(* pattern ("[0-9]+", ".*"): an atom holds no brace, colon or slash that   *)
(* the template scanner looks for, so scanning lexemes is scanning bytes.  *)
(***************************************************************************)
EXTENDS Integers, Sequences, FiniteSets, TLC

NIL == "nil"

(***************************************************************************)
(* Go slices and strings: 0-based, half-open.                              *)
(***************************************************************************)
Slice(s, a, b) == SubSeq(s, a + 1, b)

HasSuffix(s, c) == Len(s) > 0 /\ s[Len(s)] = c

Range(s) == {s[i] : i \in 1..Len(s)}

RECURSIVE Flatten(_)
Flatten(ss) == IF ss = <<>> THEN <<>> ELSE Head(ss) \o Flatten(Tail(ss))

\* strings.TrimRight(s, "/")
RECURSIVE TrimRightSlash(_)
TrimRightSlash(s) ==
    IF HasSuffix(s, "/") THEN TrimRightSlash(SubSeq(s, 1, Len(s) - 1)) ELSE s

\* strings.SplitN(s, sep, 2)
RECURSIVE IndexOf(_, _, _)
IndexOf(s, c, i) ==
    IF i > Len(s) THEN 0 ELSE IF s[i] = c THEN i ELSE IndexOf(s, c, i + 1)

SplitN2(s, sep) ==
    LET i == IndexOf(s, sep, 1)
    IN  IF i = 0 THEN <<s>> ELSE <<SubSeq(s, 1, i - 1), SubSeq(s, i + 1, Len(s))>>

(***************************************************************************)
(* regexp.go: regexpType                                                   *)
(***************************************************************************)
regexpTypePath == "path"
regexpTypeHost == "host"
regexpTypePrefix == "prefix"
regexpTypeQuery == "query"

(***************************************************************************)
(* The regular expressions the compiler builds.  A compiled expression is  *)
(* a sequence of tokens, anchored at the start (the compiler always writes *)
(* '^'), and anchored at the end when the compiler wrote '$':              *)
(*   lit c    a quoted literal byte                                        *)
(*   open/close  the capture group of one template variable                *)
(*   atom a   one atom of a variable's pattern                             *)
(*   optslash "[/]?"                                                       *)
(***************************************************************************)
Digits == {"0", "1", "2", "3", "4", "5", "6", "7", "8", "9"}

Atoms == {"[^/]+", "[^.]+", ".*", "[0-9]+"}

\* whether byte c belongs to the character class of atom a.  In Go's regexp
\* syntax "." matches any byte but the newline; a negated class matches it.
InClass(a, c) ==
    CASE a = "[^/]+" -> c # "/"
      [] a = "[^.]+" -> c # "."
      [] a = ".*" -> c # "\n"
      [] a = "[0-9]+" -> c \in Digits
      [] OTHER -> FALSE

\* the least number of bytes atom a takes
AtomMin(a) == IF a = ".*" THEN 0 ELSE 1

Lit(c) == [k |-> "lit", c |-> c]
Tok(k) == [k |-> k, c |-> ""]
AtomTok(a) == [k |-> "atom", c |-> a]

\* regexp.QuoteMeta(raw)
QuoteMeta(raw) == [i \in 1..Len(raw) |-> Lit(raw[i])]

\* a variable's pattern as tokens: an atom, or a byte standing for itself
PattToks(patt) ==
    [i \in 1..Len(patt) |-> IF patt[i] \in Atoms THEN AtomTok(patt[i]) ELSE Lit(patt[i])]

\* the longest run of bytes of class a in s from position p (1-based)
RECURSIVE RunLen(_, _, _)
RunLen(a, s, p) ==
    IF p <= Len(s) /\ InClass(a, s[p]) THEN 1 + RunLen(a, s, p + 1) ELSE 0

RxFail == [ok |-> FALSE, caps |-> <<>>, end |-> 0]

(***************************************************************************)
(* Leftmost-first matching, as Go's regexp package does it: every          *)
(* repetition is greedy and gives back one byte at a time.  caps collects  *)
(* <<start, end>> (Go offsets) of each capture group in order.             *)
(***************************************************************************)
RECURSIVE RxFrom(_, _, _, _, _, _)
RECURSIVE RxTry(_, _, _, _, _, _, _, _)
RxFrom(toks, anchored, s, i, p, caps) ==
    IF i > Len(toks)
    THEN IF anchored /\ p # Len(s) + 1 THEN RxFail
         ELSE [ok |-> TRUE, caps |-> caps, end |-> p - 1]
    ELSE LET t == toks[i]
         IN  CASE t.k = "lit" ->
                    IF p <= Len(s) /\ s[p] = t.c
                    THEN RxFrom(toks, anchored, s, i + 1, p + 1, caps)
                    ELSE RxFail
               [] t.k = "open" ->
                    RxFrom(toks, anchored, s, i + 1, p, Append(caps, <<p - 1, p - 1>>))
               [] t.k = "close" ->
                    RxFrom(toks, anchored, s, i + 1, p,
                           [caps EXCEPT ![Len(caps)] = <<caps[Len(caps)][1], p - 1>>])
               [] t.k = "atom" ->
                    RxTry(toks, anchored, s, i, p, caps, RunLen(t.c, s, p), AtomMin(t.c))
               [] t.k = "optslash" ->
                    RxTry(toks, anchored, s, i, p, caps,
                          IF p <= Len(s) /\ s[p] = "/" THEN 1 ELSE 0, 0)
               [] OTHER -> RxFail
RxTry(toks, anchored, s, i, p, caps, n, min) ==
    IF n < min THEN RxFail
    ELSE LET r == RxFrom(toks, anchored, s, i + 1, p + n, caps)
         IN  IF r.ok THEN r ELSE RxTry(toks, anchored, s, i, p, caps, n - 1, min)

\* Regexp.FindStringSubmatchIndex, for an expression that starts with '^'
FindStringSubmatchIndex(re, s) == RxFrom(re.toks, re.anchored, s, 1, 1, <<>>)

\* Regexp.MatchString
MatchString(re, s) == FindStringSubmatchIndex(re, s).ok

(***************************************************************************)
(* regexp.go: braceIndices                                                 *)
(***************************************************************************)
ErrBraces == "mux: unbalanced braces"

RECURSIVE braceScan(_, _, _, _, _)
braceScan(s, i, level, idx, idxs) ==
    IF i >= Len(s)
    THEN IF level # 0 THEN [err |-> ErrBraces, idxs |-> <<>>]
         ELSE [err |-> NIL, idxs |-> idxs]
    ELSE LET c == s[i + 1]
         IN  CASE c = "{" ->
                    braceScan(s, i + 1, level + 1, IF level + 1 = 1 THEN i ELSE idx, idxs)
               [] c = "}" ->
                    IF level - 1 = 0
                    THEN braceScan(s, i + 1, 0, idx, idxs \o <<idx, i + 1>>)
                    ELSE IF level - 1 < 0
                         THEN [err |-> ErrBraces, idxs |-> <<>>]
                         ELSE braceScan(s, i + 1, level - 1, idx, idxs)
               [] OTHER -> braceScan(s, i + 1, level, idx, idxs)

braceIndices(s) == braceScan(s, 0, 0, 0, <<>>)

(***************************************************************************)
(* regexp.go: routeRegexp.  NoRR is the nil *routeRegexp.                  *)
(***************************************************************************)
NoRR ==
    [template |-> <<>>, regexpType |-> "none",
     options |-> [strictSlash |-> FALSE, useEncodedPath |-> FALSE],
     regexp |-> [toks |-> <<>>, anchored |-> TRUE],
     reverse |-> <<>>, varsN |-> <<>>, varsR |-> <<>>, wildcardHostPort |-> FALSE]

IsNilRR(rr) == rr.regexpType = "none"

(***************************************************************************)
(* regexp.go: newRouteRegexp                                               *)
(***************************************************************************)
ErrMissingName == "mux: missing name or pattern"
ErrRegexpSyntax == "error parsing regexp"

defaultPatternOf(typ) ==
    IF typ = regexpTypeQuery THEN ".*"
    ELSE IF typ = regexpTypeHost THEN "[^.]+" ELSE "[^/]+"

\* regexp.Compile fails on a pattern that is no regular expression: here, one
\* that holds a brace or a '=' left bare (a repetition count without operand)
CompileOK(patt) == \A i \in 1..Len(patt) : patt[i] \notin {"{", "}"}

\* the loop over the template's variables (regexp.go lines 60-86)
RECURSIVE varLoop(_, _, _, _, _)
varLoop(tpl, idxs, defaultPattern, i, acc) ==
    IF i >= Len(idxs) THEN acc
    ELSE LET raw == Slice(tpl, acc.end, idxs[i + 1])
             end == idxs[i + 2]
             parts == SplitN2(Slice(tpl, idxs[i + 1] + 1, end - 1), ":")
             name == parts[1]
             patt == IF Len(parts) = 2 THEN parts[2] ELSE <<defaultPattern>>
         IN  IF name = <<>> \/ patt = <<>>
             THEN [acc EXCEPT !.err = ErrMissingName]
             ELSE IF ~CompileOK(patt)
             THEN [acc EXCEPT !.err = ErrRegexpSyntax]
             ELSE varLoop(tpl, idxs, defaultPattern, i + 2,
                    [err |-> NIL,
                     end |-> end,
                     pattern |-> acc.pattern \o QuoteMeta(raw) \o <<Tok("open")>>
                                   \o PattToks(patt) \o <<Tok("close")>>,
                     reverse |-> acc.reverse \o raw \o <<"%s">>,
                     varsN |-> Append(acc.varsN, name),
                     varsR |-> Append(acc.varsR, [toks |-> PattToks(patt), anchored |-> TRUE])])

\* strictSlash kept for every kind of template
strictSlashFor_AllTypes(typ, strictSlash) == strictSlash

\* strictSlash is kept for a Path template only (regexp.go lines 43-46)
strictSlashFor(typ, strictSlash) == IF typ # regexpTypePath THEN FALSE ELSE strictSlash

\* the descriptor made of what the loop left (regexp.go lines 88-134)
routeRegexpOf(template, tpl, typ, options, strictSlash, endSlash, acc) ==
    LET raw == Slice(tpl, acc.end, Len(tpl))
        queryVal == SplitN2(template, "=")[2]
        pattern == acc.pattern \o QuoteMeta(raw)
                     \o (IF strictSlash THEN <<Tok("optslash")>> ELSE <<>>)
                     \o (IF typ = regexpTypeQuery /\ queryVal = <<>>
                         THEN <<AtomTok(defaultPatternOf(typ))>> ELSE <<>>)
        wildcardHostPort ==
            typ = regexpTypeHost /\ ~(\E i \in 1..Len(pattern) : pattern[i].c = ":")
    IN  IF acc.err # NIL THEN [err |-> acc.err, rr |-> NoRR]
        ELSE [err |-> NIL,
              rr |-> [template |-> template,
                      regexpType |-> typ,
                      options |-> [strictSlash |-> strictSlash,
                                   useEncodedPath |-> options.useEncodedPath],
                      regexp |-> [toks |-> pattern, anchored |-> typ # regexpTypePrefix],
                      reverse |-> acc.reverse \o raw \o (IF endSlash THEN <<"/">> ELSE <<>>),
                      varsN |-> acc.varsN,
                      varsR |-> acc.varsR,
                      wildcardHostPort |-> wildcardHostPort]]

\* the template with its brace indices b (regexp.go lines 31-86)
routeRegexpFrom(tpl0, typ, options, b) ==
    LET strictSlash == strictSlashFor(typ, options.strictSlash)
        endSlash == strictSlash /\ HasSuffix(tpl0, "/")
        tpl == IF endSlash THEN SubSeq(tpl0, 1, Len(tpl0) - 1) ELSE tpl0
    IN  IF b.err # NIL THEN [err |-> b.err, rr |-> NoRR]
        ELSE routeRegexpOf(tpl0, tpl, typ, options, strictSlash, endSlash,
                 varLoop(tpl, b.idxs, defaultPatternOf(typ), 0,
                         [err |-> NIL, end |-> 0, pattern |-> <<>>, reverse |-> <<>>,
                          varsN |-> <<>>, varsR |-> <<>>]))

newRouteRegexp(tpl0, typ, options) ==
    routeRegexpFrom(tpl0, typ, options, braceIndices(tpl0))

(***************************************************************************)
(* Maps (Go map[string]string) are functions; a key is a string.           *)
(***************************************************************************)
EmptyMap == [x \in {} |-> <<>>]

MapPut(m, k, v) == [x \in (DOMAIN m) \cup {k} |-> IF x = k THEN v ELSE m[x]]

HasKey(m, k) == k \in DOMAIN m

(***************************************************************************)
(* net/url: QueryEscape and QueryUnescape on the bytes the model uses.     *)
(***************************************************************************)
Unreserved == Digits \cup {"a", "b", "c", "k", "x", "y", "-", "_", ".", "~"}

HexDigits == Digits \cup {"A", "B", "C", "D", "E", "F"}

EscapeByte(c) ==
    CASE c \in Unreserved -> <<c>>
      [] c = " " -> <<"+">>
      [] c = "/" -> <<"%", "2", "F">>
      [] c = "=" -> <<"%", "3", "D">>
      [] c = "&" -> <<"%", "2", "6">>
      [] c = "+" -> <<"%", "2", "B">>
      [] c = "%" -> <<"%", "2", "5">>
      [] c = ";" -> <<"%", "3", "B">>
      [] c = ":" -> <<"%", "3", "A">>
      [] c = "\n" -> <<"%", "0", "A">>
      [] OTHER -> <<"%", "?", "?">>

QueryEscape(s) == Flatten([i \in 1..Len(s) |-> EscapeByte(s[i])])

Unhex(a, b) ==
    CASE <<a, b>> = <<"2", "F">> -> "/"
      [] <<a, b>> = <<"3", "D">> -> "="
      [] <<a, b>> = <<"2", "6">> -> "&"
      [] <<a, b>> = <<"2", "B">> -> "+"
      [] <<a, b>> = <<"2", "5">> -> "%"
      [] <<a, b>> = <<"3", "B">> -> ";"
      [] <<a, b>> = <<"3", "A">> -> ":"
      [] <<a, b>> = <<"2", "0">> -> " "
      [] <<a, b>> = <<"0", "A">> -> "\n"
      [] OTHER -> "?"

RECURSIVE QueryUnescape(_)
QueryUnescape(s) ==
    IF s = <<>> THEN [err |-> NIL, s |-> <<>>]
    ELSE IF s[1] = "%"
    THEN IF Len(s) < 3 \/ s[2] \notin HexDigits \/ s[3] \notin HexDigits
         THEN [err |-> "invalid URL escape", s |-> <<>>]
         ELSE LET r == QueryUnescape(SubSeq(s, 4, Len(s)))
              IN  IF r.err # NIL THEN r ELSE [err |-> NIL, s |-> <<Unhex(s[2], s[3])>> \o r.s]
    ELSE LET r == QueryUnescape(Tail(s))
         IN  IF r.err # NIL THEN r
             ELSE [err |-> NIL, s |-> <<IF s[1] = "+" THEN " " ELSE s[1]>> \o r.s]

(***************************************************************************)
(* regexp.go: findFirstQueryKey, getURLQuery, matchQueryString             *)
(***************************************************************************)
RECURSIVE IndexAmpSemi(_, _)
IndexAmpSemi(s, i) ==
    IF i > Len(s) THEN 0 ELSE IF s[i] \in {"&", ";"} THEN i ELSE IndexAmpSemi(s, i + 1)

RECURSIVE findFirstQueryKey(_, _)
findFirstQueryKey(query, key) ==
    IF Len(query) = 0 THEN [value |-> <<>>, ok |-> FALSE]
    ELSE LET i == IndexAmpSemi(query, 1)
             found0 == IF i > 0 THEN SubSeq(query, 1, i - 1) ELSE query
             rest == IF i > 0 THEN SubSeq(query, i + 1, Len(query)) ELSE <<>>
             j == IndexOf(found0, "=", 1)
             foundKey == IF j > 0 THEN SubSeq(found0, 1, j - 1) ELSE found0
             value == IF j > 0 THEN SubSeq(found0, j + 1, Len(found0)) ELSE <<>>
             keyString == QueryUnescape(foundKey)
             valueString == QueryUnescape(value)
         IN  IF Len(found0) = 0 THEN findFirstQueryKey(rest, key)
             ELSE IF Len(foundKey) < Len(key) THEN findFirstQueryKey(rest, key)
             ELSE IF keyString.err # NIL THEN findFirstQueryKey(rest, key)
             ELSE IF keyString.s # key THEN findFirstQueryKey(rest, key)
             ELSE IF valueString.err # NIL THEN findFirstQueryKey(rest, key)
             ELSE [value |-> valueString.s, ok |-> TRUE]

getURLQuery(rr, req) ==
    IF rr.regexpType # regexpTypeQuery THEN <<>>
    ELSE LET templateKey == SplitN2(rr.template, "=")[1]
             r == findFirstQueryKey(req.RawQuery, templateKey)
         IN  IF r.ok THEN templateKey \o <<"=">> \o r.value ELSE <<>>

matchQueryString(rr, req) == MatchString(rr.regexp, getURLQuery(rr, req))

(***************************************************************************)
(* The request: the fields of *http.Request the router reads.  It is a     *)
(* server request (URL not absolute), so getHost is req.Host.  flag is     *)
(* what a custom MatcherFunc predicate looks at.                           *)
(***************************************************************************)
getHost(req) == req.Host

\* URL.EscapedPath, for a URL that carries no RawPath
EscapedPath(req) ==
    Flatten([i \in 1..Len(req.Path) |->
                IF req.Path[i] = " " THEN <<"%", "2", "0">> ELSE <<req.Path[i]>>])

\* the host with its port cut off (regexp.go lines 161-166, 306-311)
StripPort(host) ==
    LET i == IndexOf(host, ":", 1) IN IF i > 0 THEN SubSeq(host, 1, i - 1) ELSE host

\* regexp.go: routeRegexp.Match
routeRegexpMatch(rr, req) ==
    IF rr.regexpType = regexpTypeHost
    THEN MatchString(rr.regexp,
                     IF rr.wildcardHostPort THEN StripPort(getHost(req)) ELSE getHost(req))
    ELSE IF rr.regexpType = regexpTypeQuery
    THEN matchQueryString(rr, req)
    ELSE MatchString(rr.regexp,
                     IF rr.options.useEncodedPath THEN EscapedPath(req) ELSE req.Path)

\* extractVars reading the offsets one group too early: the first variable
\* gets the whole match, every other one the group before its own
extractVars_GroupZero(input, caps, names, i, output) ==
    [x \in (DOMAIN output) \cup Range(names) |->
        IF x \in Range(names)
        THEN LET k == CHOOSE n \in 1..Len(names) :
                          names[n] = x /\ \A n2 \in 1..Len(names) : names[n2] = x => n2 <= n
             IN  IF k = 1 THEN input ELSE Slice(input, caps[k - 1][1], caps[k - 1][2])
        ELSE output[x]]

\* regexp.go: extractVars
RECURSIVE extractVars(_, _, _, _, _)
extractVars(input, caps, names, i, output) ==
    IF i > Len(names) THEN output
    ELSE extractVars(input, caps, names, i + 1,
                     MapPut(output, names[i], Slice(input, caps[i][1], caps[i][2])))

(***************************************************************************)
(* regexp.go: routeRegexp.url                                           *)
(***************************************************************************)
ErrMissingVar == "mux: missing route variable"
ErrVarNoMatch == "mux: variable doesn't match"

\* fmt.Sprintf(reverse, urlValues...)
RECURSIVE Sprintf(_, _, _)
Sprintf(reverse, vals, k) ==
    IF reverse = <<>> THEN <<>>
    ELSE IF Head(reverse) = "%s"
    THEN vals[k] \o Sprintf(Tail(reverse), vals, k + 1)
    ELSE <<Head(reverse)>> \o Sprintf(Tail(reverse), vals, k)

routeRegexpUrl(rr, values) ==
    LET missing == {k \in 1..Len(rr.varsN) : ~HasKey(values, rr.varsN[k])}
        urlValues == [k \in 1..Len(rr.varsN) |->
                        IF rr.regexpType = regexpTypeQuery
                        THEN QueryEscape(values[rr.varsN[k]])
                        ELSE values[rr.varsN[k]]]
        rv == Sprintf(rr.reverse, urlValues, 1)
        bad == {k \in 1..Len(rr.varsN) : ~MatchString(rr.varsR[k], values[rr.varsN[k]])}
    IN  IF missing # {} THEN [err |-> ErrMissingVar, s |-> <<>>]
        ELSE IF ~MatchString(rr.regexp, rv) /\ bad # {}
        THEN [err |-> ErrVarNoMatch, s |-> <<>>]
        ELSE [err |-> NIL, s |-> rv]

(***************************************************************************)
(* Handlers.  An http.Handler value is a base handler under a stack of     *)
(* middleware wrappers, outermost first: serving it runs the wrappers in   *)
(* that order and then the base.  A base handler is nil, a handler the     *)
(* application supplied ("user": a route's handler; "notfound"/"mna": a    *)
(* router's NotFoundHandler / MethodNotAllowedHandler), or the handler     *)
(* http.RedirectHandler(url, code) returns.                                *)
(***************************************************************************)
NoURL == [Path |-> <<>>, RawQuery |-> <<>>]

Base(k, id) == [base |-> [k |-> k, id |-> id, url |-> NoURL], wraps |-> <<>>]

NilHandler == Base("nil", 0)

IsNilHandler(h) == h = NilHandler

StatusMovedPermanently == 301

RedirectHandler(url, code) ==
    [base |-> [k |-> "redirect", id |-> code, url |-> url], wraps |-> <<>>]

\* middleware.go: MiddlewareFunc.Middleware
Middleware(mw, handler) == [handler EXCEPT !.wraps = <<mw>> \o @]

(***************************************************************************)
(* mux.go: the sentinel errors; context.go: RouteMatch.  Route is a route  *)
(* id, 0 for nil.  Vars is written only after Route.Match made it a map,   *)
(* so the nil map and the empty map are one value here.                    *)
(***************************************************************************)
ErrMethodMismatch == "method is not allowed"
ErrNotFound == "no matching route was found"

NewRouteMatch ==
    [Route |-> 0, Handler |-> NilHandler, Vars |-> EmptyMap, MatchErr |-> NIL]

(***************************************************************************)
(* matcher.go: the matcher variants, one record shape for all of them.     *)
(***************************************************************************)
Matcher(k) ==
    [k |-> k, list |-> <<>>, hdr |-> EmptyMap, f |-> "", rr |-> NoRR, router |-> 0]

methodMatcher(methods) == [Matcher("method") EXCEPT !.list = methods]
schemeMatcher(schemes) == [Matcher("scheme") EXCEPT !.list = schemes]
headerMatcher(headers) == [Matcher("header") EXCEPT !.hdr = headers]
headerRegexMatcher(headers) == [Matcher("headerRegex") EXCEPT !.hdr = headers]
funcMatcher(f) == [Matcher("func") EXCEPT !.f = f]
regexpMatcher(rr) == [Matcher("regexp") EXCEPT !.rr = rr]
routerMatcher(id) == [Matcher("router") EXCEPT !.router = id]

\* matchInArray: whether value is one of arr
matchInArray(arr, value) == \E i \in 1..Len(arr) : arr[i] = value

\* matchMapWithString: every configured key is a header of the request, with
\* the configured value unless that is empty
matchMapWithString(m, header) ==
    \A k \in DOMAIN m : HasKey(header, k) /\ (m[k] = <<>> \/ header[k] = m[k])

\* matchMapWithRegex: the same, the configured value being a pattern
matchMapWithRegex(m, header) ==
    \A k \in DOMAIN m :
        HasKey(header, k)
        /\ (m[k] = <<>> \/ MatchString([toks |-> PattToks(m[k]), anchored |-> TRUE], header[k]))

\* matcher.go: schemeMatcher.Match
schemeMatch(list, req) ==
    LET scheme == IF req.Scheme = "" THEN (IF req.TLS THEN "https" ELSE "http")
                  ELSE req.Scheme
    IN  matchInArray(list, scheme)

\* the custom predicates of the model: MatcherFunc(f) where f reads req.flag
funcMatch(f, req) == IF f = "flag" THEN req.flag ELSE FALSE

(***************************************************************************)
(* The state.                                                              *)
(*   routers  the Router objects, by id; router 1 is the one NewRouter()   *)
(*            returned                                                     *)
(*   routes   the Route objects, by id                                     *)
(*   maps     the namedRoutes maps, by id: a Router or Route holds a map   *)
(*            by reference, that is, holds its id                          *)
(*   ret      the receiver and the value returned by the last builder call *)
(*   last     the last Router.Match call on a fresh RouteMatch             *)
(*   built    the last Route.URL call                                      *)
(*   walked   the last Router.Walk call: the visitor it was given (the     *)
(*            routes it answers SkipRouter for, the route it fails on),    *)
(*            the calls of the visitor in order, and the error returned    *)
(*   got      the last Router.Get call                                     *)
(*   served   the last Router.ServeHTTP call                               *)
(*   workers  the calls in progress on the goroutines that serve requests, *)
(*            each with the RouteMatch it owns                             *)
(***************************************************************************)
VARIABLES routers, routes, maps, ret, last, built, walked, got, served, workers

vars == <<routers, routes, maps, ret, last, built, walked, got, served, workers>>

\* mux.go: routeConf
NewRouteConf ==
    [useEncodedPath |-> FALSE, strictSlash |-> FALSE, skipClean |-> FALSE,
     regexp |-> [host |-> NoRR, path |-> NoRR, queries |-> <<>>],
     matchers |-> <<>>, buildScheme |-> "", buildVarsFunc |-> <<>>]

\* mux.go: copyRouteConf and copyRouteRegexp.  The copy shares nothing with
\* the original: every descriptor and the matcher list are copied by value.
copyRouteRegexp(r) == r

copyRouteConf(r) ==
    [r EXCEPT !.regexp = [host |-> IF IsNilRR(r.regexp.host) THEN NoRR
                                   ELSE copyRouteRegexp(r.regexp.host),
                          path |-> IF IsNilRR(r.regexp.path) THEN NoRR
                                   ELSE copyRouteRegexp(r.regexp.path),
                          queries |-> [k \in 1..Len(r.regexp.queries) |->
                                          copyRouteRegexp(r.regexp.queries[k])]],
              !.matchers = [k \in 1..Len(r.matchers) |-> r.matchers[k]]]

NoRet == [recv |-> 0, val |-> 0]
\* the fields of *http.Request and *url.URL the router reads
NoReq ==
    [Method |-> "", Path |-> <<>>, RawQuery |-> <<>>, Host |-> <<>>, Scheme |-> "",
     TLS |-> FALSE, Header |-> EmptyMap, flag |-> FALSE]

NilURL == [Scheme |-> "", Host |-> <<>>, Path |-> <<>>, RawQuery |-> <<>>]

NoLast == [router |-> 0, req |-> NoReq, ok |-> FALSE, by |-> 0, match |-> NewRouteMatch]
NoBuilt == [route |-> 0, values |-> EmptyMap, err |-> NIL, url |-> NilURL]
NoWalked == [router |-> 0, skip |-> {}, fail |-> 0, err |-> NIL, visits |-> <<>>]
NoGot == [router |-> 0, name |-> <<>>, route |-> 0]
\* status and location are what ServeHTTP itself wrote to the response (0 and
\* no URL when it delegated to handler), vars and route what it attached to
\* the request it handed to handler
NoServed ==
    [router |-> 0, req |-> NoReq, status |-> 0, location |-> NoURL,
     handler |-> NilHandler, vars |-> EmptyMap, route |-> 0]

\* the goroutines that serve requests
NumWorkers == 2

Workers == 1..NumWorkers

\* a goroutine that is in no call.  In a call, call is the method it runs,
\* pc where it stands in it, i the index of the next route of the router,
\* match the RouteMatch the call owns; ok, match, served and built hold what
\* the call returned once pc is "done".
IdleWorker ==
    [pc |-> "idle", call |-> "", router |-> 0, req |-> NoReq, i |-> 0,
     match |-> NewRouteMatch, ok |-> FALSE, served |-> NoServed,
     route |-> 0, pairs |-> <<>>, built |-> NoBuilt]

NoWorkers == [w \in Workers |-> IdleWorker]

(***************************************************************************)
(* regexp.go: routeRegexpGroup.setMatch                                    *)
(***************************************************************************)
\* the variables of descriptor rr stored from the submatch indices, when
\* there are any (regexp.go lines 310-314, 319-322, 345-347)
matchedVars(rr, input, m, matches) ==
    IF matches.ok
    THEN [m EXCEPT !.Vars = extractVars(input, matches.caps, rr.varsN, 1, @)]
    ELSE m

submatchVars(rr, input, m) ==
    matchedVars(rr, input, m, FindStringSubmatchIndex(rr.regexp, input))

setMatchHost(v, req, m) ==
    IF IsNilRR(v.host) THEN m
    ELSE submatchVars(v.host,
                      IF v.host.wildcardHostPort THEN StripPort(getHost(req))
                      ELSE getHost(req),
                      m)

\* strictSlashRedirect with a redirect URL that loses the query string
strictSlashRedirect_DropsQuery(v, req, path, m) ==
    LET p1 == HasSuffix(path, "/")
        p2 == HasSuffix(v.path.template, "/")
    IN  IF v.path.options.strictSlash /\ p1 # p2
        THEN [m EXCEPT !.Handler =
                 RedirectHandler(
                     [Path |-> IF p1 THEN SubSeq(req.Path, 1, Len(req.Path) - 1)
                               ELSE req.Path \o <<"/">>,
                      RawQuery |-> <<>>],
                     StatusMovedPermanently)]
        ELSE m

\* the redirect decision of a strict-slash path (regexp.go lines 327-338)
strictSlashRedirect(v, req, path, m) ==
    LET p1 == HasSuffix(path, "/")
        p2 == HasSuffix(v.path.template, "/")
        u == [Path |-> req.Path, RawQuery |-> req.RawQuery]
    IN  IF v.path.options.strictSlash /\ p1 # p2
        THEN [m EXCEPT !.Handler =
                 RedirectHandler(
                     IF p1 THEN [u EXCEPT !.Path = SubSeq(u.Path, 1, Len(u.Path) - 1)]
                     ELSE [u EXCEPT !.Path = u.Path \o <<"/">>],
                     StatusMovedPermanently)]
        ELSE m

\* regexp.go lines 319-340, given the submatch indices of the path
pathMatched(v, req, m, path, matches) ==
    IF matches.ok
    THEN strictSlashRedirect(v, req, path, matchedVars(v.path, path, m, matches))
    ELSE m

setMatchPathOn(v, req, m, path) ==
    pathMatched(v, req, m, path, FindStringSubmatchIndex(v.path.regexp, path))

setMatchPath(v, req, m, r) ==
    IF IsNilRR(v.path) THEN m
    ELSE setMatchPathOn(v, req, m,
                        IF r.conf.useEncodedPath THEN EscapedPath(req) ELSE req.Path)

RECURSIVE setMatchQueries(_, _, _, _)
setMatchQueries(v, req, m, k) ==
    IF k > Len(v.queries) THEN m
    ELSE setMatchQueries(v, req,
                         submatchVars(v.queries[k], getURLQuery(v.queries[k], req), m),
                         k + 1)

setMatch(v, req, m, r) ==
    setMatchQueries(v, req, setMatchPath(v, req, setMatchHost(v, req, m), r), 1)

(***************************************************************************)
(* route.go: Route.Match, and mux.go: Router.Match.  Both return whether   *)
(* they matched (ok) and the RouteMatch as they leave it (m).  Router.Match *)
(* also tells where it returned: by is the route of the router whose       *)
(* Route.Match returned true (mux.go line 97), 0 when it returned after    *)
(* the loop (lines 101-117).                                               *)
(***************************************************************************)
\* the middleware chain of Router.Match (mux.go lines 93-95): i runs from
\* len(middlewares)-1 down to 0
RECURSIVE applyMiddlewares(_, _, _)
applyMiddlewares(mws, i, handler) ==
    IF i < 0 THEN handler
    ELSE applyMiddlewares(mws, i - 1, Middleware(mws[i + 1], handler))

\* noRouteMatched without the method-mismatch branch: every miss is a 404
noRouteMatched_AlwaysNotFound(r, match) ==
    IF ~IsNilHandler(r.NotFoundHandler)
    THEN [ok |-> TRUE, by |-> 0,
          m |-> [match EXCEPT !.Handler = r.NotFoundHandler, !.MatchErr = ErrNotFound]]
    ELSE [ok |-> FALSE, by |-> 0, m |-> [match EXCEPT !.MatchErr = ErrNotFound]]

\* the outcome when no route matched (mux.go lines 101-117)
noRouteMatched(r, match) ==
    IF match.MatchErr = ErrMethodMismatch
    THEN IF ~IsNilHandler(r.MethodNotAllowedHandler)
         THEN [ok |-> TRUE, by |-> 0,
               m |-> [match EXCEPT !.Handler = r.MethodNotAllowedHandler]]
         ELSE [ok |-> FALSE, by |-> 0, m |-> match]
    ELSE IF ~IsNilHandler(r.NotFoundHandler)
         THEN [ok |-> TRUE, by |-> 0,
               m |-> [match EXCEPT !.Handler = r.NotFoundHandler, !.MatchErr = ErrNotFound]]
         ELSE [ok |-> FALSE, by |-> 0, m |-> [match EXCEPT !.MatchErr = ErrNotFound]]

\* routeMatched without the clearing of an earlier method mismatch
routeMatched_KeepsMismatch(id, req, match) ==
    LET r == routes[id]
        m2 == IF match.Route = 0 THEN [match EXCEPT !.Route = id] ELSE match
        m3 == IF IsNilHandler(m2.Handler) THEN [m2 EXCEPT !.Handler = r.handler] ELSE m2
    IN  [ok |-> TRUE, m |-> setMatch(r.conf.regexp, req, m3, r)]

\* a route that passed all of its matchers (route.go lines 67-84)
routeMatched(id, req, match) ==
    LET r == routes[id]
        m1 == IF match.MatchErr = ErrMethodMismatch /\ ~IsNilHandler(r.handler)
              THEN [match EXCEPT !.MatchErr = NIL, !.Handler = r.handler]
              ELSE match
        m2 == IF m1.Route = 0 THEN [m1 EXCEPT !.Route = id] ELSE m1
        m3 == IF IsNilHandler(m2.Handler) THEN [m2 EXCEPT !.Handler = r.handler] ELSE m2
    IN  [ok |-> TRUE, m |-> setMatch(r.conf.regexp, req, m3, r)]

\* matcherFailed that clears whatever error the result carries
matcherFailed_ClearsAny(match) ==
    [ok |-> FALSE, m |-> [match EXCEPT !.MatchErr = NIL]]

\* a matcher other than the method matcher failed (route.go lines 51-58)
matcherFailed(match) ==
    [ok |-> FALSE,
     m |-> IF match.MatchErr = ErrNotFound THEN [match EXCEPT !.MatchErr = NIL] ELSE match]

RECURSIVE RouterMatch(_, _, _)
RECURSIVE RouteMatch(_, _, _)
RECURSIVE matchersLoop(_, _, _, _, _)
RECURSIVE matcherTried(_, _, _, _, _)
RECURSIVE routesLoop(_, _, _, _)
RECURSIVE routeTried(_, _, _, _)

\* what a subrouter's Match tells the route: whether it matched, and the match
routerResult(sub) == [ok |-> sub.ok, m |-> sub.m]

\* matcher.Match, by variant
matcherMatch(mt, req, match) ==
    CASE mt.k = "method" -> [ok |-> matchInArray(mt.list, req.Method), m |-> match]
      [] mt.k = "scheme" -> [ok |-> schemeMatch(mt.list, req), m |-> match]
      [] mt.k = "header" -> [ok |-> matchMapWithString(mt.hdr, req.Header), m |-> match]
      [] mt.k = "headerRegex" -> [ok |-> matchMapWithRegex(mt.hdr, req.Header), m |-> match]
      [] mt.k = "func" -> [ok |-> funcMatch(mt.f, req), m |-> match]
      [] mt.k = "regexp" -> [ok |-> routeRegexpMatch(mt.rr, req), m |-> match]
      [] mt.k = "router" ->
            routerResult(RouterMatch(mt.router, req, match))

\* the loop over a route's matchers (route.go lines 44-65)
matchersLoop(id, req, match, i, matchErr) ==
    LET ms == routes[id].conf.matchers
    IN  IF i > Len(ms)
        THEN IF matchErr # NIL
             THEN [ok |-> FALSE, m |-> [match EXCEPT !.MatchErr = matchErr]]
             ELSE routeMatched(id, req, match)
        ELSE matcherTried(id, req, i, matchErr, matcherMatch(ms[i], req, match))

\* after matcher i returned res (route.go lines 45-64)
matcherTried(id, req, i, matchErr, res) ==
    IF res.ok THEN matchersLoop(id, req, res.m, i + 1, matchErr)
    ELSE IF routes[id].conf.matchers[i].k = "method"
    THEN matchersLoop(id, req, res.m, i + 1, ErrMethodMismatch)
    ELSE matcherFailed(res.m)

RouteMatch(id, req, match) ==
    IF routes[id].buildOnly \/ routes[id].err # NIL
    THEN [ok |-> FALSE, m |-> match]
    ELSE matchersLoop(id, req, match, 1, NIL)

\* the loop over a router's routes (mux.go lines 89-99)
routesLoop(rid, req, match, i) ==
    LET r == routers[rid]
    IN  IF i > Len(r.routes) THEN noRouteMatched(r, match)
        ELSE routeTried(rid, req, i, RouteMatch(r.routes[i], req, match))

\* after route i of the router returned res (mux.go lines 90-98)
routeTried(rid, req, i, res) ==
    LET r == routers[rid]
    IN  IF res.ok
        THEN [ok |-> TRUE, by |-> r.routes[i],
              m |-> IF res.m.MatchErr = NIL
                    THEN [res.m EXCEPT !.Handler =
                             applyMiddlewares(r.middlewares, Len(r.middlewares) - 1, @)]
                    ELSE res.m]
        ELSE routesLoop(rid, req, res.m, i + 1)

RouterMatch(rid, req, match) == routesLoop(rid, req, match, 1)

(***************************************************************************)
(* The helpers of the package that route.go calls: mapFromPairsToString,   *)
(* mapFromPairsToRegex, uniqueVars.                                        *)
(***************************************************************************)
ErrPairs == "mux: number of parameters must be multiple of 2"
ErrDupVar == "mux: duplicated route variable"

RECURSIVE pairsToMap(_, _)
pairsToMap(pairs, m) ==
    IF Len(pairs) < 2 THEN m
    ELSE pairsToMap(SubSeq(pairs, 3, Len(pairs)), MapPut(m, pairs[1], pairs[2]))

mapFromPairsToString(pairs) ==
    IF Len(pairs) % 2 # 0 THEN [err |-> ErrPairs, m |-> EmptyMap]
    ELSE [err |-> NIL, m |-> pairsToMap(pairs, EmptyMap)]

mapFromPairsToRegex(pairs) ==
    IF Len(pairs) % 2 # 0 THEN [err |-> ErrPairs, m |-> EmptyMap]
    ELSE IF \E i \in 1..Len(pairs) : i % 2 = 0 /\ ~CompileOK(pairs[i])
    THEN [err |-> ErrRegexpSyntax, m |-> EmptyMap]
    ELSE [err |-> NIL, m |-> pairsToMap(pairs, EmptyMap)]

uniqueVars(s1, s2) == IF Range(s1) \cap Range(s2) # {} THEN ErrDupVar ELSE NIL

\* strings.ToUpper and strings.ToLower on the words the model uses
ToUpper(w) == CASE w = "get" -> "GET" [] w = "post" -> "POST" [] OTHER -> w
ToLower(w) == CASE w = "HTTP" -> "http" [] w = "HTTPS" -> "https" [] OTHER -> w

(***************************************************************************)
(* route.go: the builder methods, as functions from the Route to the Route *)
(* they leave.                                                             *)
(***************************************************************************)
\* route.go: Route.addMatcher
addMatcher(r, m) ==
    IF r.err = NIL THEN [r EXCEPT !.conf.matchers = Append(@, m)] ELSE r

ErrPathSlash == "mux: path must start with a slash"

\* the uniqueness checks and the store of a compiled descriptor
\* (route.go lines 174-198)
storeRegexp(r, rr, typ) ==
    LET dupQ == \E k \in 1..Len(r.conf.regexp.queries) :
                    uniqueVars(rr.varsN, r.conf.regexp.queries[k].varsN) # NIL
        dupPath == typ = regexpTypeHost /\ ~IsNilRR(r.conf.regexp.path)
                   /\ uniqueVars(rr.varsN, r.conf.regexp.path.varsN) # NIL
        dupHost == typ # regexpTypeHost /\ ~IsNilRR(r.conf.regexp.host)
                   /\ uniqueVars(rr.varsN, r.conf.regexp.host.varsN) # NIL
        stored == IF typ = regexpTypeHost THEN [r EXCEPT !.conf.regexp.host = rr]
                  ELSE IF typ = regexpTypeQuery
                  THEN [r EXCEPT !.conf.regexp.queries = Append(@, rr)]
                  ELSE [r EXCEPT !.conf.regexp.path = rr]
    IN  IF dupQ \/ dupPath \/ dupHost THEN [err |-> ErrDupVar, r |-> r]
        ELSE [err |-> NIL, r |-> addMatcher(stored, regexpMatcher(rr))]

\* the descriptor newRouteRegexp returned: its error, or the store
\* (route.go lines 170-199)
storeCompiled(r, c, typ) ==
    IF c.err # NIL THEN [err |-> c.err, r |-> r] ELSE storeRegexp(r, c.rr, typ)

\* addRegexpMatcher compiling the template as given, without the path
\* template the route already has
addRegexpMatcher_NoPrefix(r, tpl0, typ) ==
    LET isPath == typ = regexpTypePath \/ typ = regexpTypePrefix
    IN  IF r.err # NIL THEN [err |-> r.err, r |-> r]
        ELSE IF isPath /\ Len(tpl0) > 0 /\ tpl0[1] # "/"
        THEN [err |-> ErrPathSlash, r |-> r]
        ELSE storeCompiled(r,
                 newRouteRegexp(tpl0, typ, [strictSlash |-> r.conf.strictSlash,
                                            useEncodedPath |-> r.conf.useEncodedPath]),
                 typ)

\* route.go: Route.addRegexpMatcher: the error it returns and the route it leaves
addRegexpMatcher(r, tpl0, typ) ==
    LET isPath == typ = regexpTypePath \/ typ = regexpTypePrefix
        tpl == IF isPath /\ ~IsNilRR(r.conf.regexp.path)
               THEN TrimRightSlash(r.conf.regexp.path.template) \o tpl0
               ELSE tpl0
        c == newRouteRegexp(tpl, typ, [strictSlash |-> r.conf.strictSlash,
                                       useEncodedPath |-> r.conf.useEncodedPath])
    IN  IF r.err # NIL THEN [err |-> r.err, r |-> r]
        ELSE IF isPath /\ Len(tpl0) > 0 /\ tpl0[1] # "/"
        THEN [err |-> ErrPathSlash, r |-> r]
        ELSE storeCompiled(r, c, typ)

\* Route.Host, Route.Path, Route.PathPrefix: r.err = r.addRegexpMatcher(tpl, typ)
setErr(a) == [a.r EXCEPT !.err = a.err]

withRegexp(r, tpl, typ) == setErr(addRegexpMatcher(r, tpl, typ))

\* route.go: Route.Handler
withHandler(r, handler) == IF r.err = NIL THEN [r EXCEPT !.handler = handler] ELSE r

\* route.go: Route.BuildOnly
withBuildOnly(r) == [r EXCEPT !.buildOnly = TRUE]

ErrHasName == "mux: route already has name"

\* route.go: Route.Name: the route it leaves; whether it registers the name
nameError(r) == IF r.name # <<>> THEN ErrHasName ELSE r.err

withName(r, name) ==
    IF nameError(r) = NIL THEN [r EXCEPT !.err = NIL, !.name = name]
    ELSE [r EXCEPT !.err = nameError(r)]

\* route.go: Route.Methods
withMethods(r, methods) ==
    addMatcher(r, methodMatcher([k \in 1..Len(methods) |-> ToUpper(methods[k])]))

\* route.go: Route.Schemes
withSchemes(r, schemes) ==
    LET lower == [k \in 1..Len(schemes) |-> ToLower(schemes[k])]
        r1 == IF Len(lower) > 0 THEN [r EXCEPT !.conf.buildScheme = lower[1]] ELSE r
    IN  addMatcher(r1, schemeMatcher(lower))

\* route.go: Route.Headers
withHeaders(r, pairs) ==
    IF r.err = NIL
    THEN LET h == mapFromPairsToString(pairs)
         IN  addMatcher([r EXCEPT !.err = h.err], headerMatcher(h.m))
    ELSE r

\* route.go: Route.HeadersRegexp
withHeadersRegexp(r, pairs) ==
    IF r.err = NIL
    THEN LET h == mapFromPairsToRegex(pairs)
         IN  addMatcher([r EXCEPT !.err = h.err], headerRegexMatcher(h.m))
    ELSE r

\* route.go: Route.MatcherFunc
withMatcherFunc(r, f) == addMatcher(r, funcMatcher(f))

\* route.go: Route.BuildVarsFunc.  A composed hook is the list of the hooks
\* in the order they are applied.
withBuildVarsFunc(r, f) == [r EXCEPT !.conf.buildVarsFunc = Append(@, f)]

\* route.go: Route.Queries: the route it leaves and the value it returns
\* (0 is nil, 1 is the receiver)
RECURSIVE queriesLoop(_, _, _)
RECURSIVE queriesNext(_, _, _)
queriesLoop(r, pairs, i) ==
    IF i >= Len(pairs) THEN r
    ELSE queriesNext(withRegexp(r, pairs[i + 1] \o <<"=">> \o pairs[i + 2], regexpTypeQuery),
                     pairs, i)

\* after one pair: return on its error (route.go lines 343-346)
queriesNext(r1, pairs, i) == IF r1.err # NIL THEN r1 ELSE queriesLoop(r1, pairs, i + 2)

queriesReturnsReceiver(pairs) == Len(pairs) % 2 = 0

withQueries(r, pairs) ==
    IF Len(pairs) % 2 # 0 THEN [r EXCEPT !.err = ErrPairs]
    ELSE queriesLoop(r, pairs, 0)

(***************************************************************************)
(* The actions: one per exported operation.                                *)
(***************************************************************************)
\* mux.go: NewRouter, and the Router a Subrouter call makes
NewRouterRec(conf, namedRoutes) ==
    [NotFoundHandler |-> NilHandler, MethodNotAllowedHandler |-> NilHandler,
     routes |-> <<>>, namedRoutes |-> namedRoutes, middlewares |-> <<>>, conf |-> conf]

\* a builder call on route id that leaves route r and returns val
Built(id, r, val) ==
    /\ routes' = [routes EXCEPT ![id] = r]
    /\ ret' = [recv |-> id, val |-> val]
    /\ last' = NoLast
    /\ built' = NoBuilt
    /\ walked' = NoWalked
    /\ got' = NoGot
    /\ served' = NoServed
    /\ UNCHANGED workers

\* mux.go: Router.NewRoute
NewRoute(rid) ==
    /\ routes' = Append(routes,
                        [handler |-> NilHandler, buildOnly |-> FALSE, name |-> <<>>,
                         err |-> NIL, namedRoutes |-> routers[rid].namedRoutes,
                         conf |-> copyRouteConf(routers[rid].conf)])
    /\ routers' = [routers EXCEPT ![rid].routes = Append(@, Len(routes) + 1)]
    /\ ret' = [recv |-> Len(routes) + 1, val |-> Len(routes) + 1]
    /\ last' = NoLast
    /\ built' = NoBuilt
    /\ walked' = NoWalked
    /\ got' = NoGot
    /\ served' = NoServed
    /\ UNCHANGED workers
    /\ UNCHANGED maps

Handler(id, handler) ==
    /\ Built(id, withHandler(routes[id], handler), id)
    /\ UNCHANGED <<routers, maps>>

BuildOnly(id) ==
    /\ Built(id, withBuildOnly(routes[id]), id)
    /\ UNCHANGED <<routers, maps>>

\* route.go: Route.Name
Name(id, name) ==
    /\ Built(id, withName(routes[id], name), id)
    /\ maps' = IF nameError(routes[id]) = NIL
               THEN [maps EXCEPT ![routes[id].namedRoutes] = MapPut(@, name, id)]
               ELSE maps
    /\ UNCHANGED routers

Methods(id, methods) ==
    /\ Built(id, withMethods(routes[id], methods), id)
    /\ UNCHANGED <<routers, maps>>

Schemes(id, schemes) ==
    /\ Built(id, withSchemes(routes[id], schemes), id)
    /\ UNCHANGED <<routers, maps>>

Headers(id, pairs) ==
    /\ Built(id, withHeaders(routes[id], pairs), id)
    /\ UNCHANGED <<routers, maps>>

HeadersRegexp(id, pairs) ==
    /\ Built(id, withHeadersRegexp(routes[id], pairs), id)
    /\ UNCHANGED <<routers, maps>>

Host(id, tpl) ==
    /\ Built(id, withRegexp(routes[id], tpl, regexpTypeHost), id)
    /\ UNCHANGED <<routers, maps>>

Path(id, tpl) ==
    /\ Built(id, withRegexp(routes[id], tpl, regexpTypePath), id)
    /\ UNCHANGED <<routers, maps>>

PathPrefix(id, tpl) ==
    /\ Built(id, withRegexp(routes[id], tpl, regexpTypePrefix), id)
    /\ UNCHANGED <<routers, maps>>

Queries(id, pairs) ==
    /\ Built(id, withQueries(routes[id], pairs),
             IF queriesReturnsReceiver(pairs) THEN id ELSE 0)
    /\ UNCHANGED <<routers, maps>>

MatcherFunc(id, f) ==
    /\ Built(id, withMatcherFunc(routes[id], f), id)
    /\ UNCHANGED <<routers, maps>>

BuildVarsFunc(id, f) ==
    /\ Built(id, withBuildVarsFunc(routes[id], f), id)
    /\ UNCHANGED <<routers, maps>>

\* route.go: Route.Subrouter
Subrouter(id) ==
    /\ routers' = Append(routers,
                         NewRouterRec(copyRouteConf(routes[id].conf), routes[id].namedRoutes))
    /\ routes' = [routes EXCEPT ![id] = addMatcher(@, routerMatcher(Len(routers) + 1))]
    /\ ret' = NoRet
    /\ last' = NoLast
    /\ built' = NoBuilt
    /\ walked' = NoWalked
    /\ got' = NoGot
    /\ served' = NoServed
    /\ UNCHANGED workers
    /\ UNCHANGED maps

\* mux.go: Router.Get; 0 is the nil *Route
Get(rid, name) ==
    /\ got' = [router |-> rid, name |-> name,
               route |-> IF HasKey(maps[routers[rid].namedRoutes], name)
                         THEN maps[routers[rid].namedRoutes][name] ELSE 0]
    /\ ret' = NoRet
    /\ last' = NoLast
    /\ built' = NoBuilt
    /\ walked' = NoWalked
    /\ served' = NoServed
    /\ UNCHANGED <<routers, routes, maps, workers>>

\* middleware.go: Router.Use, with one middleware
Use(rid, mw) ==
    /\ routers' = [routers EXCEPT ![rid].middlewares = Append(@, mw)]
    /\ last' = NoLast
    /\ built' = NoBuilt
    /\ walked' = NoWalked
    /\ got' = NoGot
    /\ served' = NoServed
    /\ UNCHANGED workers
    /\ ret' = NoRet
    /\ UNCHANGED <<routes, maps>>

\* mux.go: Router.StrictSlash
StrictSlash(rid, value) ==
    /\ routers' = [routers EXCEPT ![rid].conf.strictSlash = value]
    /\ last' = NoLast
    /\ built' = NoBuilt
    /\ walked' = NoWalked
    /\ got' = NoGot
    /\ served' = NoServed
    /\ UNCHANGED workers
    /\ ret' = NoRet
    /\ UNCHANGED <<routes, maps>>

\* an assignment to the exported field Router.NotFoundHandler
SetNotFoundHandler(rid, handler) ==
    /\ routers' = [routers EXCEPT ![rid].NotFoundHandler = handler]
    /\ last' = NoLast
    /\ built' = NoBuilt
    /\ walked' = NoWalked
    /\ got' = NoGot
    /\ served' = NoServed
    /\ UNCHANGED workers
    /\ ret' = NoRet
    /\ UNCHANGED <<routes, maps>>

\* an assignment to the exported field Router.MethodNotAllowedHandler
SetMethodNotAllowedHandler(rid, handler) ==
    /\ routers' = [routers EXCEPT ![rid].MethodNotAllowedHandler = handler]
    /\ last' = NoLast
    /\ built' = NoBuilt
    /\ walked' = NoWalked
    /\ got' = NoGot
    /\ served' = NoServed
    /\ UNCHANGED workers
    /\ ret' = NoRet
    /\ UNCHANGED <<routes, maps>>

\* mux.go: Router.Match, called with a fresh RouteMatch
Match(rid, req) ==
    LET res == RouterMatch(rid, req, NewRouteMatch)
    IN  /\ last' = [router |-> rid, req |-> req, ok |-> res.ok, by |-> res.by,
                     match |-> res.m]
        /\ ret' = NoRet
        /\ built' = NoBuilt
        /\ walked' = NoWalked
        /\ got' = NoGot
        /\ served' = NoServed
        /\ UNCHANGED workers
        /\ UNCHANGED <<routers, routes, maps>>

(***************************************************************************)
(* mux.go: Router.ServeHTTP.  The result is what the call did with the     *)
(* response: the redirect it wrote itself, or the handler it delegated to  *)
(* and the variables and route it attached to the request.                 *)
(***************************************************************************)
\* cleanPath: the canonical form of a path.  The paths of the model have no
\* "." or ".." segment, so that cleaning is: the empty path becomes "/", a
\* leading slash is added, repeated slashes become one, and a trailing slash
\* stays.
RECURSIVE squeezeSlashes(_, _)
squeezeSlashes(p, i) ==
    IF i > Len(p) THEN <<>>
    ELSE IF p[i] = "/" /\ i > 1 /\ p[i - 1] = "/" THEN squeezeSlashes(p, i + 1)
    ELSE <<p[i]>> \o squeezeSlashes(p, i + 1)

cleanPath(p) ==
    IF p = <<>> THEN <<"/">>
    ELSE squeezeSlashes(IF p[1] = "/" THEN p ELSE <<"/">> \o p, 1)

\* the handlers ServeHTTP falls back to (mux.go lines 147-153)
methodNotAllowedHandler == Base("405", 0)

NotFoundHandler == Base("404", 0)

\* the path ServeHTTP cleans (mux.go lines 122-126)
servedPath(r, req) == IF r.conf.useEncodedPath THEN EscapedPath(req) ELSE req.Path

\* whether ServeHTTP answers with the redirect to the cleaned path
\* (mux.go lines 121-128)
cleanRedirects(r, req) ==
    ~r.conf.skipClean /\ cleanPath(servedPath(r, req)) # servedPath(r, req)

\* the redirect to the cleaned path (mux.go lines 129-136)
cleanRedirect(rid, req) ==
    [NoServed EXCEPT !.router = rid, !.req = req,
                     !.status = StatusMovedPermanently,
                     !.location = [Path |-> cleanPath(servedPath(routers[rid], req)),
                                   RawQuery |-> req.RawQuery]]

\* the handler ServeHTTP ends with, given the handler it took from the match
\* (mux.go lines 147-153)
fallback(handler, match) ==
    IF IsNilHandler(handler) /\ match.MatchErr = ErrMethodMismatch
    THEN methodNotAllowedHandler
    ELSE IF IsNilHandler(handler) THEN NotFoundHandler
    ELSE handler

\* ServeHTTP after r.Match returned res (mux.go lines 141-155)
dispatched(rid, req, res) ==
    [NoServed EXCEPT !.router = rid, !.req = req,
                     !.handler = fallback(IF res.ok THEN res.m.Handler ELSE NilHandler,
                                          res.m),
                     !.vars = IF res.ok THEN res.m.Vars ELSE EmptyMap,
                     !.route = IF res.ok THEN res.m.Route ELSE 0]

serveHTTP(rid, req) ==
    IF cleanRedirects(routers[rid], req) THEN cleanRedirect(rid, req)
    ELSE dispatched(rid, req, RouterMatch(rid, req, NewRouteMatch))

ServeHTTP(rid, req) ==
    /\ served' = serveHTTP(rid, req)
    /\ ret' = NoRet
    /\ last' = NoLast
    /\ built' = NoBuilt
    /\ walked' = NoWalked
    /\ got' = NoGot
    /\ UNCHANGED workers
    /\ UNCHANGED <<routers, routes, maps>>

(***************************************************************************)
(* route.go: Route.URL, with prepareVars and buildVars                     *)
(***************************************************************************)
\* the variable-transform hooks of the model
applyHook(f, m) ==
    CASE f = "defk" -> IF HasKey(m, <<"k">>) THEN m ELSE MapPut(m, <<"k">>, <<"1">>)
      [] f = "dropk" -> [x \in (DOMAIN m) \ {<<"k">>} |-> m[x]]
      [] OTHER -> m

RECURSIVE buildVars(_, _)
buildVars(fs, m) == IF fs = <<>> THEN m ELSE buildVars(Tail(fs), applyHook(Head(fs), m))

\* strings.Join(queries, "&")
RECURSIVE JoinAmp(_)
JoinAmp(qs) ==
    IF qs = <<>> THEN <<>>
    ELSE IF Len(qs) = 1 THEN qs[1] ELSE qs[1] \o <<"&">> \o JoinAmp(Tail(qs))

routeURL(r, pairs) ==
    LET p == mapFromPairsToString(pairs)
        values == buildVars(r.conf.buildVarsFunc, p.m)
        v == r.conf.regexp
        host == IF IsNilRR(v.host) THEN [err |-> NIL, s |-> <<>>]
                ELSE routeRegexpUrl(v.host, values)
        scheme == IF IsNilRR(v.host) THEN ""
                  ELSE IF r.conf.buildScheme # "" THEN r.conf.buildScheme ELSE "http"
        path == IF IsNilRR(v.path) THEN [err |-> NIL, s |-> <<>>]
                ELSE routeRegexpUrl(v.path, values)
        qs == [k \in 1..Len(v.queries) |-> routeRegexpUrl(v.queries[k], values)]
        qerr == {k \in 1..Len(qs) : qs[k].err # NIL}
        fail(e) == [err |-> e, url |-> NilURL, values |-> values]
    IN  IF r.err # NIL THEN [err |-> r.err, url |-> NilURL, values |-> EmptyMap]
        ELSE IF p.err # NIL THEN [err |-> p.err, url |-> NilURL, values |-> EmptyMap]
        ELSE IF host.err # NIL THEN fail(host.err)
        ELSE IF path.err # NIL THEN fail(path.err)
        ELSE IF qerr # {} THEN fail(qs[CHOOSE k \in qerr : \A k2 \in qerr : k <= k2].err)
        ELSE [err |-> NIL,
              url |-> [Scheme |-> scheme, Host |-> host.s, Path |-> path.s,
                       RawQuery |-> JoinAmp([k \in 1..Len(qs) |-> qs[k].s])],
              values |-> values]

URL(id, pairs) ==
    LET res == routeURL(routes[id], pairs)
    IN  /\ built' = [route |-> id, values |-> res.values, err |-> res.err, url |-> res.url]
        /\ walked' = NoWalked
        /\ got' = NoGot
        /\ served' = NoServed
        /\ UNCHANGED workers
        /\ ret' = NoRet
        /\ last' = NoLast
        /\ UNCHANGED <<routers, routes, maps>>

(***************************************************************************)
(* Router.Match, Router.ServeHTTP and Route.URL as the goroutines that     *)
(* serve requests run them: a call is a sequence of steps, and the steps   *)
(* of the calls of different goroutines interleave.  A step of             *)
(* Router.Match or ServeHTTP is one turn of the loop over the router's     *)
(* routes (mux.go lines 89-99) or what follows the loop; every step reads  *)
(* the tree as it is when the step is taken.                               *)
(***************************************************************************)
\* a step of goroutine w that leaves it as rec
workerStep(w, rec) ==
    /\ workers' = [workers EXCEPT ![w] = rec]
    /\ ret' = NoRet
    /\ last' = NoLast
    /\ built' = NoBuilt
    /\ walked' = NoWalked
    /\ got' = NoGot
    /\ served' = NoServed
    /\ UNCHANGED <<routers, routes, maps>>

\* one RouteMatch that the calls of all goroutines pass to Route.Match
ownMatch_Shared(w) == workers[1].match

\* the RouteMatch the call of goroutine w passes to Route.Match: its own
\* (mux.go line 139: var match RouteMatch)
ownMatch(w) == workers[w].match

\* the call returns res from Router.Match
matchReturned(rec, res) ==
    IF rec.call = "Match"
    THEN [rec EXCEPT !.pc = "done", !.ok = res.ok, !.match = res.m]
    ELSE [rec EXCEPT !.pc = "done", !.ok = res.ok, !.match = res.m,
                     !.served = dispatched(rec.router, rec.req, res)]

\* goroutine w calls r.Match(req, &match) with a RouteMatch of its own
StartMatch(w, rid, req) ==
    /\ workers[w].pc = "idle"
    /\ workerStep(w, [IdleWorker EXCEPT !.pc = "routes", !.call = "Match",
                                        !.router = rid, !.req = req, !.i = 1])

\* goroutine w calls r.ServeHTTP(w, req): mux.go lines 120-140
StartServeHTTP(w, rid, req) ==
    /\ workers[w].pc = "idle"
    /\ workerStep(w,
           IF cleanRedirects(routers[rid], req)
           THEN [IdleWorker EXCEPT !.pc = "done", !.call = "ServeHTTP",
                                   !.router = rid, !.req = req,
                                   !.served = cleanRedirect(rid, req)]
           ELSE [IdleWorker EXCEPT !.pc = "routes", !.call = "ServeHTTP",
                                   !.router = rid, !.req = req, !.i = 1])

\* after Route.Match of route i returned res to the call of goroutine w
routeStepped(w, res) ==
    LET rec == workers[w]
    IN  IF res.ok
        THEN matchReturned(rec, routeTried(rec.router, rec.req, rec.i, res))
        ELSE [rec EXCEPT !.i = @ + 1, !.match = res.m]

\* one turn of the loop of Router.Match in the call of goroutine w
StepRoute(w) ==
    LET rec == workers[w]
        r == routers[rec.router]
    IN  /\ rec.pc = "routes"
        /\ workerStep(w,
               IF rec.i > Len(r.routes)
               THEN matchReturned(rec, noRouteMatched(r, ownMatch(w)))
               ELSE routeStepped(w, RouteMatch(r.routes[rec.i], rec.req, ownMatch(w))))

\* goroutine w calls Route.URL(pairs...) on route id
StartURL(w, id, pairs) ==
    /\ workers[w].pc = "idle"
    /\ workerStep(w, [IdleWorker EXCEPT !.pc = "url", !.call = "URL",
                                        !.route = id, !.pairs = pairs])

\* the URL the call of goroutine w builds, as Route.URL returns it
urlBuilt(id, res) ==
    [route |-> id, values |-> res.values, err |-> res.err, url |-> res.url]

StepURL(w) ==
    LET rec == workers[w]
    IN  /\ rec.pc = "url"
        /\ workerStep(w, [rec EXCEPT !.pc = "done",
                                     !.built = urlBuilt(rec.route,
                                                  routeURL(routes[rec.route], rec.pairs))])

(***************************************************************************)
(* Spec: the router tree and its dispatch.  Routes carry method matchers,  *)
(* custom predicates and subrouters; a request is a method and the flag    *)
(* the predicates read.                                                    *)
(***************************************************************************)
\* the size of the tree: its routes, matchers, handlers and middlewares
RECURSIVE SumSeq(_)
SumSeq(xs) == IF xs = <<>> THEN 0 ELSE Head(xs) + SumSeq(Tail(xs))

RouteSize(r) ==
    1 + Len(r.conf.matchers) + (IF IsNilHandler(r.handler) THEN 0 ELSE 1)

RouterSize(r) ==
    Len(r.middlewares) + (IF IsNilHandler(r.NotFoundHandler) THEN 0 ELSE 1)
    + (IF IsNilHandler(r.MethodNotAllowedHandler) THEN 0 ELSE 1)

Size ==
    SumSeq([i \in 1..Len(routes) |-> RouteSize(routes[i])])
    + SumSeq([i \in 1..Len(routers) |-> RouterSize(routers[i])])

\* the construction calls of a run build a tree of at most this size
MaxSize == 6

Room == Size < MaxSize

Request(method, flag) == [NoReq EXCEPT !.Method = method, !.flag = flag, !.Path = <<"/">>]

Requests == {Request(m, f) : m \in {"GET", "POST"}, f \in BOOLEAN}

RouteIds == 1..Len(routes)
RouterIds == 1..Len(routers)

Init ==
    /\ routers = <<NewRouterRec(NewRouteConf, 1)>>
    /\ routes = <<>>
    /\ maps = <<EmptyMap>>
    /\ ret = NoRet
    /\ last = NoLast
    /\ built = NoBuilt
    /\ walked = NoWalked
    /\ got = NoGot
    /\ served = NoServed
    /\ workers = NoWorkers

Next ==
    \/ \E rid \in RouterIds : Room /\ NewRoute(rid)
    \/ \E id \in RouteIds : Room /\ Methods(id, <<"get">>)
    \/ \E id \in RouteIds : Room /\ MatcherFunc(id, "flag")
    \/ \E id \in RouteIds : Room /\ Subrouter(id)
    \/ \E id \in RouteIds : Room /\ Handler(id, Base("user", id))
    \/ \E rid \in RouterIds : Room /\ Use(rid, <<rid, Len(routers[rid].middlewares) + 1>>)
    \/ \E rid \in RouterIds : Room /\ SetNotFoundHandler(rid, Base("notfound", rid))
    \/ \E rid \in RouterIds : Room /\ SetMethodNotAllowedHandler(rid, Base("mna", rid))
    \/ \E req \in Requests : Match(1, req)

Spec == Init /\ [][Next]_vars

(***************************************************************************)
(* Properties of Router.Match on a tree of routes (Spec).                  *)
(***************************************************************************)
\* the routes of the router of the last Match call, in registration order
LastRoutes == routers[last.router].routes

\* Route.Match of one route on the request of the last call, on its own
Alone(id) == RouteMatch(id, last.req, NewRouteMatch)

HasSubrouter(id) == \E i \in 1..Len(routes[id].conf.matchers) :
                        routes[id].conf.matchers[i].k = "router"

\* the router of the last call has no subrouters
Flat == \A i \in 1..Len(LastRoutes) : ~HasSubrouter(LastRoutes[i])

\* a matcher of a route without subrouters accepts the request
Accepts(mt, req) == matcherMatch(mt, req, NewRouteMatch).ok

\* the route passes all of its matchers
PassesAll(id, req) ==
    /\ ~routes[id].buildOnly /\ routes[id].err = NIL
    /\ \A i \in 1..Len(routes[id].conf.matchers) : Accepts(routes[id].conf.matchers[i], req)

\* the route passes every matcher except its method matcher
MethodOnlyFail(id, req) ==
    LET ms == routes[id].conf.matchers
    IN  /\ ~routes[id].buildOnly /\ routes[id].err = NIL
        /\ \E i \in 1..Len(ms) : ms[i].k = "method" /\ ~Accepts(ms[i], req)
        /\ \A i \in 1..Len(ms) : ms[i].k # "method" => Accepts(ms[i], req)

(* C1: when two routes of a router would each match the request on their   *)
(* own, Router.Match returns the route and the handler that the earlier    *)
(* registered of them yields.                                              *)
C1_FirstMatchWins ==
    last.router # 0 =>
        \A i, j \in 1..Len(LastRoutes) :
            ( /\ i < j
              /\ Alone(LastRoutes[i]).ok /\ Alone(LastRoutes[j]).ok
              /\ \A k \in 1..(i - 1) : ~Alone(LastRoutes[k]).ok )
            => /\ last.ok
               /\ last.match.Route = Alone(LastRoutes[i]).m.Route
               /\ last.match.Handler.base = Alone(LastRoutes[i]).m.Handler.base

\* the later route of C2: it has a handler and passes all of its matchers,
\* no route before it does, and one before it fails on its method only
LaterRoute(j) ==
    /\ ~IsNilHandler(routes[LastRoutes[j]].handler)
    /\ PassesAll(LastRoutes[j], last.req)
    /\ \A i \in 1..(j - 1) : ~PassesAll(LastRoutes[i], last.req)
    /\ \E i \in 1..(j - 1) : MethodOnlyFail(LastRoutes[i], last.req)

(* C2: in a router without subrouters, when earlier routes fail on their   *)
(* method matcher only and a later route that has a handler passes all of  *)
(* its matchers, Router.Match returns true with the later route and its    *)
(* handler and a nil MatchErr, also when a method-not-allowed handler is   *)
(* configured.                                                             *)
C2_MismatchNeverMasks ==
    (last.router # 0 /\ Flat) =>
        \A j \in 1..Len(LastRoutes) :
            LaterRoute(j) =>
                /\ last.ok
                /\ last.match.Route = LastRoutes[j]
                /\ last.match.Handler.base = routes[LastRoutes[j]].handler.base
                /\ last.match.MatchErr = NIL

C2_Witness ==
    /\ last.router # 0 /\ Flat
    /\ ~IsNilHandler(routers[last.router].MethodNotAllowedHandler)
    /\ \E j \in 1..Len(LastRoutes) : LaterRoute(j)
    /\ last.ok

\* the routes of a router tried in order from route i: whether none of them
\* matched, and the RouteMatch as the last one tried left it
RECURSIVE AfterRoutes(_, _, _, _)
AfterRoutes(rid, req, match, i) ==
    IF i > Len(routers[rid].routes) THEN [none |-> TRUE, m |-> match]
    ELSE LET res == RouteMatch(routers[rid].routes[i], req, match)
         IN  IF res.ok THEN [none |-> FALSE, m |-> res.m]
             ELSE AfterRoutes(rid, req, res.m, i + 1)

LastAfterRoutes == AfterRoutes(last.router, last.req, NewRouteMatch, 1)

(* C3: when no route of the router matched: if the result carries          *)
(* ErrMethodMismatch, Router.Match returns true with the router's          *)
(* MethodNotAllowedHandler when one is set and false otherwise; in every   *)
(* other case it sets ErrNotFound and returns true with the NotFoundHandler *)
(* when one is set and false otherwise.  A fallback handler never comes    *)
(* with a nil MatchErr.                                                    *)
C3_FallbackResolution ==
    (last.router # 0 /\ LastAfterRoutes.none) =>
        LET r == routers[last.router]
        IN  /\ last.by = 0
            /\ IF LastAfterRoutes.m.MatchErr = ErrMethodMismatch
               THEN /\ last.match.MatchErr = ErrMethodMismatch
                    /\ IF IsNilHandler(r.MethodNotAllowedHandler)
                       THEN ~last.ok
                       ELSE last.ok /\ last.match.Handler = r.MethodNotAllowedHandler
               ELSE /\ last.match.MatchErr = ErrNotFound
                    /\ IF IsNilHandler(r.NotFoundHandler)
                       THEN ~last.ok
                       ELSE last.ok /\ last.match.Handler = r.NotFoundHandler
            /\ last.match.MatchErr # NIL

C3_Witness ==
    /\ last.router # 0 /\ LastAfterRoutes.none
    /\ LastAfterRoutes.m.MatchErr = ErrMethodMismatch
    /\ ~IsNilHandler(routers[last.router].MethodNotAllowedHandler)
    /\ ~IsNilHandler(routers[last.router].NotFoundHandler)
    /\ last.ok

\* the route a router selects for a request: its first route, in
\* registration order, all of whose matchers accept the request (a subrouter
\* accepts it when it selects a route); 0 when there is none
RECURSIVE Selected(_, _)
RECURSIVE Passes(_, _)
RECURSIVE FirstPassing(_, _, _)
Passes(id, req) ==
    /\ ~routes[id].buildOnly /\ routes[id].err = NIL
    /\ \A i \in 1..Len(routes[id].conf.matchers) :
          LET mt == routes[id].conf.matchers[i]
          IN  IF mt.k = "router" THEN Selected(mt.router, req) # 0 ELSE Accepts(mt, req)

FirstPassing(rid, req, i) ==
    IF i > Len(routers[rid].routes) THEN 0
    ELSE IF Passes(routers[rid].routes[i], req) THEN routers[rid].routes[i]
    ELSE FirstPassing(rid, req, i + 1)

Selected(rid, req) == FirstPassing(rid, req, 1)

\* the middlewares around the handler of the selected route: those of the
\* router, first registered outermost, around those of the subrouter the
\* selected route leads into
RECURSIVE ExpectedWraps(_, _)
ExpectedWraps(rid, req) ==
    LET id == Selected(rid, req)
        ms == IF id = 0 THEN <<>> ELSE routes[id].conf.matchers
        subs == {i \in 1..Len(ms) : ms[i].k = "router"}
        first == CHOOSE i \in subs : \A k \in subs : i <= k
    IN  IF id = 0 THEN <<>>
        ELSE routers[rid].middlewares
             \o (IF subs = {} THEN <<>> ELSE ExpectedWraps(ms[first].router, req))

(* C8: the handler of a match without an error is wrapped by the           *)
(* middlewares of the router that owns the selected route, first           *)
(* registered outermost, inside those of the routers above it; when a      *)
(* fallback handler was selected, with its match error, no middleware is   *)
(* applied.                                                                *)
C8_MiddlewareOrder ==
    (last.router # 0 /\ last.ok) =>
        /\ last.match.MatchErr = NIL
           => last.match.Handler.wraps = ExpectedWraps(last.router, last.req)
        /\ (last.match.MatchErr # NIL /\ last.by = 0)
           => last.match.Handler.wraps = <<>>

(***************************************************************************)
(* SpecBuild: the construction calls.  Every builder of Route is called,   *)
(* with arguments that are accepted and arguments that record a            *)
(* construction error, on the routes of a router and of its subrouters.    *)
(***************************************************************************)
\* what the construction calls have put on a route
RouteBuilt(r) ==
    RouteSize(r) + Len(r.conf.buildVarsFunc)
    + (IF r.name # <<>> THEN 1 ELSE 0) + (IF r.buildOnly THEN 1 ELSE 0)
    + (IF r.conf.buildScheme # "" THEN 1 ELSE 0) + (IF r.err # NIL THEN 1 ELSE 0)

BuiltSize == SumSeq([i \in 1..Len(routes) |-> RouteBuilt(routes[i])]) + Len(routers) - 1

\* the construction calls of a run put at most this much on the routes
MaxBuilt == 4

RoomBuild == BuiltSize < MaxBuilt

Names == {<<"a">>, <<"b">>}

HeaderPairs == {<< <<"x">>, <<"1">> >>, << <<"x">> >>}
HeaderRegexpPairs == {<< <<"x">>, <<"[0-9]+">> >>, << <<"x">> >>}
QueryPairs ==
    {<< <<"q">>, <<"{", "v", "}">> >>, << <<"q">>, <<"{", "k", "}">> >>, << <<"q">> >>}
HostTemplates == {<<"{", "k", "}">>}
BuildPathTemplates == {<<"/", "{", "k", "}">>, <<"a">>}
PrefixTemplates == {<<"/", "a">>}

NextBuild ==
    \/ \E rid \in RouterIds : RoomBuild /\ NewRoute(rid)
    \/ \E id \in RouteIds : RoomBuild /\ Handler(id, Base("user", id))
    \/ \E id \in RouteIds : RoomBuild /\ BuildOnly(id)
    \/ \E id \in RouteIds, name \in Names : RoomBuild /\ Name(id, name)
    \/ \E id \in RouteIds : RoomBuild /\ Methods(id, <<"get">>)
    \/ \E id \in RouteIds : RoomBuild /\ Schemes(id, <<"HTTPS">>)
    \/ \E id \in RouteIds, pairs \in HeaderPairs : RoomBuild /\ Headers(id, pairs)
    \/ \E id \in RouteIds, pairs \in HeaderRegexpPairs : RoomBuild /\ HeadersRegexp(id, pairs)
    \/ \E id \in RouteIds, tpl \in HostTemplates : RoomBuild /\ Host(id, tpl)
    \/ \E id \in RouteIds, tpl \in BuildPathTemplates : RoomBuild /\ Path(id, tpl)
    \/ \E id \in RouteIds, tpl \in PrefixTemplates : RoomBuild /\ PathPrefix(id, tpl)
    \/ \E id \in RouteIds, pairs \in QueryPairs : RoomBuild /\ Queries(id, pairs)
    \/ \E id \in RouteIds : RoomBuild /\ MatcherFunc(id, "flag")
    \/ \E id \in RouteIds : RoomBuild /\ BuildVarsFunc(id, "defk")
    \/ \E id \in RouteIds : RoomBuild /\ Subrouter(id)
    \/ \E rid \in RouterIds, name \in Names : Get(rid, name)

SpecBuild == Init /\ [][NextBuild]_vars

(* C4: names are unique in a router tree: no two routes that carry no      *)
(* construction error hold the same name.  (Every route of the model is in *)
(* the tree of router 1.)                                                  *)
C4_NamesUnique ==
    \A i, j \in RouteIds :
        (i # j /\ routes[i].name # <<>> /\ routes[i].name = routes[j].name)
        => (routes[i].err # NIL \/ routes[j].err # NIL)

\* what C9 says a builder call leaves alone
Frame(r) ==
    <<r.conf.matchers, r.conf.regexp, r.handler, r.name, r.conf.buildScheme,
      r.conf.buildVarsFunc, r.buildOnly, r.err>>

(* C9: a builder call on a route that carries a construction error leaves  *)
(* the route's matchers, descriptors, handler, name, build scheme,         *)
(* variable-transform hook, build-only flag and error unchanged.           *)
C9_ErrorShortCircuits ==
    [][\A id \in RouteIds : routes[id].err # NIL => Frame(routes'[id]) = Frame(routes[id])]_vars

(* C10: every builder call on a route returns that route.                  *)
C10_ReturnsReceiver == ret.recv # 0 => ret.val = ret.recv

(***************************************************************************)
(* SpecTpl: templates.  Routes of router 1 get Path, PathPrefix, Host and  *)
(* Queries templates, before and after StrictSlash(true); requests carry a *)
(* path and a query string; Route.URL is called with values that fit the   *)
(* variables and values that do not.                                       *)
(***************************************************************************)
TplSize == SumSeq([i \in 1..Len(routes) |-> RouteSize(routes[i])])

\* the construction calls of a run put at most this much on the routes
MaxTpl == 3

RoomTpl == TplSize < MaxTpl

\* the routes of a run
MaxTplRoutes == 1

TplPathTemplates ==
    { <<"/">>, <<"/", "a">>,
      <<"/", "{", "k", "}">>, <<"/", "{", "k", "}", "/">>,
      <<"/", "{", "k", "}", "{", "j", "}">>,
      <<"/", "{", "k", "}", "/", "{", "j", "}">>,
      <<"/", "{", "i", ":", "[0-9]+", "}">>,
      <<"/", "{", "w", ":", ".*", "}", "/">> }

TplPrefixTemplates == { <<"/", "{", "i", ":", "[0-9]+", "}">>, <<"/", "a", "/">> }

TplHostTemplates == { <<"{", "h", "}">> }

TplQueryPairs == { << <<"q">>, <<"{", "v", "}">> >> }

TplPaths ==
    { <<>>, <<"/">>, <<"/", "a">>, <<"/", "a", "/">>, <<"/", "x">>, <<"/", "x", "/">>,
      <<"/", "x", "y", "z">>, <<"/", "x", "/", "y", "z">>, <<"/", "1">>, <<"/", "1", "a">> }

TplRequest(p, q) ==
    [NoReq EXCEPT !.Method = "GET", !.Path = p, !.RawQuery = q, !.Host = <<"x">>]

\* every path with a query string, and one request without
TplRequests ==
    { TplRequest(p, <<"q", "=", "1">>) : p \in TplPaths } \cup { TplRequest(<<"/", "x">>, <<>>) }

\* the pairs Route.URL is called with
TplPairs ==
    { <<>>,
      << <<"k">>, <<"x">> >>,
      << <<"k">>, <<"x">>, <<"j">>, <<"y", "z">> >>,
      << <<"k">>, <<>>, <<"j">>, <<"x", "y">> >>,
      << <<"i">>, <<"1">> >>,
      << <<"i">>, <<"1", "a">> >>,
      << <<"w">>, <<"x">> >>,
      << <<"h">>, <<"x">>, <<"v">>, <<"1">> >>,
      << <<"k">> >> }

\* a route is given at most one path template, one host template and one
\* set of query templates
NoPath(id) == IsNilRR(routes[id].conf.regexp.path)
NoHost(id) == IsNilRR(routes[id].conf.regexp.host)
NoQueries(id) == routes[id].conf.regexp.queries = <<>>

NextTpl ==
    \/ StrictSlash(1, TRUE)
    \/ RoomTpl /\ Len(routes) < MaxTplRoutes /\ NewRoute(1)
    \/ \E id \in RouteIds : RoomTpl /\ Handler(id, Base("user", id))
    \/ \E id \in RouteIds, tpl \in TplPathTemplates :
          RoomTpl /\ NoPath(id) /\ Path(id, tpl)
    \/ \E id \in RouteIds, tpl \in TplPrefixTemplates :
          RoomTpl /\ NoPath(id) /\ PathPrefix(id, tpl)
    \/ \E id \in RouteIds, tpl \in TplHostTemplates :
          RoomTpl /\ NoHost(id) /\ Host(id, tpl)
    \/ \E id \in RouteIds, pairs \in TplQueryPairs :
          RoomTpl /\ NoQueries(id) /\ Queries(id, pairs)
    \/ \E req \in TplRequests : Match(1, req)
    \/ \E id \in RouteIds, pairs \in TplPairs : URL(id, pairs)

SpecTpl == Init /\ [][NextTpl]_vars

\* a route whose one matcher is the Path template it was given
PathOnly(id) ==
    /\ routes[id].err = NIL /\ ~routes[id].buildOnly
    /\ Len(routes[id].conf.matchers) = 1
    /\ routes[id].conf.matchers[1].k = "regexp"
    /\ routes[id].conf.matchers[1].rr.regexpType = regexpTypePath

\* path p is an instance of Path template tpl, to the last byte
ExactMatch(tpl, p) ==
    MatchString(newRouteRegexp(tpl, regexpTypePath,
                               [strictSlash |-> FALSE, useEncodedPath |-> FALSE]).rr.regexp, p)

\* path p with its trailing slash made to agree with template tpl
Agreeing(tpl, p) ==
    IF HasSuffix(tpl, "/") THEN p \o <<"/">> ELSE SubSeq(p, 1, Len(p) - 1)

(* C5: for a Path route created while strictSlash is true, a request path  *)
(* that differs from the template by one trailing slash only matches the   *)
(* route with a 301 redirect to the request URL with the slash added or    *)
(* removed and the query string unchanged; a request path whose trailing   *)
(* slash agrees with the template gets the route's own handler.            *)
C5_StrictSlash ==
    (last.router # 0 /\ Len(LastRoutes) >= 1) =>
        LET id == LastRoutes[1]
            tpl == routes[id].conf.regexp.path.template
            p == last.req.Path
        IN  (routes[id].conf.strictSlash /\ PathOnly(id)) =>
              /\ (HasSuffix(p, "/") # HasSuffix(tpl, "/") /\ ExactMatch(tpl, Agreeing(tpl, p)))
                 => /\ last.ok /\ last.by = id
                    /\ last.match.Handler =
                         RedirectHandler([Path |-> Agreeing(tpl, p),
                                          RawQuery |-> last.req.RawQuery],
                                         StatusMovedPermanently)
              /\ (HasSuffix(p, "/") = HasSuffix(tpl, "/") /\ ExactMatch(tpl, p))
                 => /\ last.ok /\ last.by = id
                    /\ last.match.Handler = routes[id].handler

\* a redirect that removes the slash of a request with a query string
C5_Witness ==
    /\ last.router # 0 /\ Len(LastRoutes) >= 1
    /\ routes[LastRoutes[1]].conf.strictSlash /\ PathOnly(LastRoutes[1])
    /\ ~IsNilHandler(routes[LastRoutes[1]].handler)
    /\ routes[LastRoutes[1]].conf.regexp.path.varsN # <<>>
    /\ HasSuffix(last.req.Path, "/")
    /\ ~HasSuffix(routes[LastRoutes[1]].conf.regexp.path.template, "/")
    /\ last.req.RawQuery # <<>>
    /\ last.ok /\ last.match.Handler.base.k = "redirect"

\* the host, path and query descriptors of a route
Descriptors(r) ==
    {rr \in {r.conf.regexp.host, r.conf.regexp.path} : ~IsNilRR(rr)}
    \cup Range(r.conf.regexp.queries)

(* C6: Route.URL returns an error and no URL when a variable of one of the *)
(* route's descriptors is missing from the values (after the hook) or its  *)
(* value does not match the variable's own pattern.                        *)
C6_BuildErrorsReturned ==
    built.route # 0 =>
        ( (\E rr \in Descriptors(routes[built.route]) : \E k \in 1..Len(rr.varsN) :
              \/ ~HasKey(built.values, rr.varsN[k])
              \/ ~MatchString(rr.varsR[k], built.values[rr.varsN[k]]))
          => (built.err # NIL /\ built.url = NilURL) )

\* the values a variable is given
TplValues == { <<>>, <<"x">>, <<"x", "y">>, <<"y", "z">>, <<"z">>, <<"1">>, <<"x", "/">> }

\* the assignments of values to the variables of a descriptor, each value
\* matching its variable's pattern
ValidAssignments(rr) ==
    { vals \in [Range(rr.varsN) -> TplValues] :
        \A k \in 1..Len(rr.varsN) : MatchString(rr.varsR[k], vals[rr.varsN[k]]) }

\* the request path of the last call is the path built from vals
BuiltFrom(rr, vals) == routeRegexpUrl(rr, vals) = [err |-> NIL, s |-> last.req.Path]

(* C7: for every Path template and every assignment of values that match   *)
(* their variables' patterns, the path built from the values matches the   *)
(* template, and extraction returns the value substituted for every        *)
(* variable.                                                               *)
C7_RoundTrip ==
    (last.router # 0 /\ Len(LastRoutes) >= 1 /\ PathOnly(LastRoutes[1])) =>
        LET id == LastRoutes[1]
            rr == routes[id].conf.regexp.path
        IN  \A vals \in ValidAssignments(rr) :
                BuiltFrom(rr, vals) => (last.ok /\ last.by = id /\ last.match.Vars = vals)

\* no pattern of the template's variables takes a '/', and a '/' stands
\* between every two of its variables
Separated(rr) ==
    /\ \A k \in 1..Len(rr.varsR) : \A i \in 1..Len(rr.varsR[k].toks) :
          LET t == rr.varsR[k].toks[i]
          IN  IF t.k = "atom" THEN ~InClass(t.c, "/") ELSE t.c # "/"
    /\ \A i, j \in 1..Len(rr.reverse) :
          (i < j /\ rr.reverse[i] = "%s" /\ rr.reverse[j] = "%s")
          => \E m \in (i + 1)..(j - 1) : rr.reverse[m] = "/"

(* C7, amended: the path built from the values always matches the          *)
(* template; extraction returns the substituted values when no variable's  *)
(* pattern can match a '/' and a '/' separates every two variables.        *)
C7_RoundTripSeparated ==
    (last.router # 0 /\ Len(LastRoutes) >= 1 /\ PathOnly(LastRoutes[1])) =>
        LET id == LastRoutes[1]
            rr == routes[id].conf.regexp.path
        IN  \A vals \in ValidAssignments(rr) :
                BuiltFrom(rr, vals) =>
                    /\ last.ok /\ last.by = id
                    /\ Separated(rr) => last.match.Vars = vals

\* a template of two variables, matched on a path built from two values
C7_Witness ==
    /\ last.router # 0 /\ Len(LastRoutes) >= 1 /\ PathOnly(LastRoutes[1])
    /\ Len(routes[LastRoutes[1]].conf.regexp.path.varsN) = 2
    /\ Separated(routes[LastRoutes[1]].conf.regexp.path)
    /\ \E vals \in ValidAssignments(routes[LastRoutes[1]].conf.regexp.path) :
          /\ BuiltFrom(routes[LastRoutes[1]].conf.regexp.path, vals)
          /\ last.match.Vars = vals
    /\ last.ok

\* the descriptors a route holds, slot by slot: host, path, then the queries
DescriptorSlots(r) ==
    (IF IsNilRR(r.conf.regexp.host) THEN <<>> ELSE <<r.conf.regexp.host>>)
    \o (IF IsNilRR(r.conf.regexp.path) THEN <<>> ELSE <<r.conf.regexp.path>>)
    \o r.conf.regexp.queries

(* C11: no variable name occurs in two different descriptors of one route: *)
(* a registration that would bring one in records an error instead of      *)
(* storing its descriptor, in whatever order the templates come.           *)
C11_VarsUniqueInRoute ==
    \A id \in RouteIds :
        LET ds == DescriptorSlots(routes[id])
        IN  \A i, j \in 1..Len(ds) :
                i < j => Range(ds[i].varsN) \cap Range(ds[j].varsN) = {}

(***************************************************************************)
(* mux.go: Router.Walk.  A visitor is the set of routes it answers         *)
(* SkipRouter for and the route it fails on (0: none); a handler that is a *)
(* Router is the base handler "router" with that router's id.              *)
(***************************************************************************)
SkipRouter == "skip this router"

\* the error of a visitor that fails
ErrVisitor == "visitor error"

RouterHandler(rid) == Base("router", rid)

\* walkFn(t, r, ancestors) of the visitor (skip, fail)
walkFn(skip, fail, t) ==
    IF t = fail THEN ErrVisitor ELSE IF t \in skip THEN SkipRouter ELSE NIL

RECURSIVE walkRoutes(_, _, _, _, _, _)
RECURSIVE walkVisited(_, _, _, _, _, _, _)
RECURSIVE walkMatchers(_, _, _, _, _, _, _)
RECURSIVE walkDescended(_, _, _, _, _, _, _)
RECURSIVE walkHandler(_, _, _, _, _, _)
RECURSIVE walkHandlerDone(_, _, _, _, _, _)

\* after walkFn returned err for route i of the router (mux.go lines 270-276)
walkVisited(rid, skip, fail, ancestors, i, visits, err) ==
    IF err = SkipRouter THEN walkRoutes(rid, skip, fail, ancestors, i + 1, visits)
    ELSE IF err # NIL THEN [err |-> err, visits |-> visits]
    ELSE walkMatchers(rid, skip, fail, ancestors, i, 1, visits)

\* the loop over the router's routes (mux.go lines 269-296)
walkRoutes(rid, skip, fail, ancestors, i, visits) ==
    IF i > Len(routers[rid].routes) THEN [err |-> NIL, visits |-> visits]
    ELSE walkVisited(rid, skip, fail, ancestors, i,
                     Append(visits, [route |-> routers[rid].routes[i], router |-> rid,
                                     ancestors |-> ancestors]),
                     walkFn(skip, fail, routers[rid].routes[i]))

\* after the walk of the router of matcher k returned (mux.go lines 280-284)
walkDescended(rid, skip, fail, ancestors, i, k, res) ==
    IF res.err # NIL THEN res
    ELSE walkMatchers(rid, skip, fail, ancestors, i, k + 1, res.visits)

\* the loop over the matchers of route i (mux.go lines 277-286)
walkMatchers(rid, skip, fail, ancestors, i, k, visits) ==
    LET t == routers[rid].routes[i]
        ms == routes[t].conf.matchers
    IN  IF k > Len(ms) THEN walkHandler(rid, skip, fail, ancestors, i, visits)
        ELSE IF ms[k].k = "router"
        THEN walkDescended(rid, skip, fail, ancestors, i, k,
                 walkRoutes(ms[k].router, skip, fail, Append(ancestors, t), 1, visits))
        ELSE walkMatchers(rid, skip, fail, ancestors, i, k + 1, visits)

\* after the walk of the router that is the handler returned (lines 289-293)
walkHandlerDone(rid, skip, fail, ancestors, i, res) ==
    IF res.err # NIL THEN res
    ELSE walkRoutes(rid, skip, fail, ancestors, i + 1, res.visits)

\* the handler of route i, when it is a Router (mux.go lines 287-294)
walkHandler(rid, skip, fail, ancestors, i, visits) ==
    LET t == routers[rid].routes[i]
        h == routes[t].handler
    IN  IF h.base.k = "router" /\ h.wraps = <<>>
        THEN walkHandlerDone(rid, skip, fail, ancestors, i,
                 walkRoutes(h.base.id, skip, fail, Append(ancestors, t), 1, visits))
        ELSE walkRoutes(rid, skip, fail, ancestors, i + 1, visits)

\* mux.go: Router.walk
walk(rid, skip, fail, ancestors) == walkRoutes(rid, skip, fail, ancestors, 1, <<>>)

\* mux.go: Router.Walk
Walk(rid, skip, fail) ==
    LET res == walk(rid, skip, fail, <<>>)
    IN  /\ walked' = [router |-> rid, skip |-> skip, fail |-> fail,
                       err |-> res.err, visits |-> res.visits]
        /\ ret' = NoRet
        /\ last' = NoLast
        /\ built' = NoBuilt
        /\ got' = NoGot
        /\ served' = NoServed
        /\ UNCHANGED <<routers, routes, maps, workers>>

\* mux.go: NewRouter, called again: a router of its own, with its own registry
NewRouter ==
    /\ routers' = Append(routers, NewRouterRec(NewRouteConf, Len(maps) + 1))
    /\ maps' = Append(maps, EmptyMap)
    /\ ret' = NoRet
    /\ last' = NoLast
    /\ built' = NoBuilt
    /\ walked' = NoWalked
    /\ got' = NoGot
    /\ served' = NoServed
    /\ UNCHANGED workers
    /\ UNCHANGED routes

(***************************************************************************)
(* SpecWalk: trees of routers, built with Subrouter and by giving a route  *)
(* a Router as its handler, and walked from any router by any visitor.     *)
(***************************************************************************)
\* the routers of route t that Walk descends into, in the order it does
Children(t) ==
    SelectSeq([k \in 1..Len(routes[t].conf.matchers) |->
                  IF routes[t].conf.matchers[k].k = "router"
                  THEN routes[t].conf.matchers[k].router ELSE 0],
              LAMBDA x : x # 0)
    \o (IF routes[t].handler.base.k = "router" THEN <<routes[t].handler.base.id>> ELSE <<>>)

\* router rid hangs under some route
Attached(rid) == \E t \in RouteIds : rid \in Range(Children(t))

ParentRoute(rid) == CHOOSE t \in RouteIds : rid \in Range(Children(t))

OwnerOf(t) == CHOOSE rid \in RouterIds : t \in Range(routers[rid].routes)

RECURSIVE RootOf(_)
RootOf(rid) == IF Attached(rid) THEN RootOf(OwnerOf(ParentRoute(rid))) ELSE rid

\* giving route t the router rid as its handler keeps the routers a forest
Mountable(t, rid) == ~Attached(rid) /\ RootOf(OwnerOf(t)) # rid

\* the construction calls of a run build routers of at most this size
MaxWalk == 5

RoomWalk == Size < MaxWalk

\* the routes of a run
MaxWalkRoutes == 3

\* the routers of a run, the first one included
MaxRouters == 3

NextWalk ==
    \/ RoomWalk /\ Len(routers) < MaxRouters /\ NewRouter
    \/ \E rid \in RouterIds : RoomWalk /\ Len(routes) < MaxWalkRoutes /\ NewRoute(rid)
    \/ \E id \in RouteIds : RoomWalk /\ Len(routers) < MaxRouters /\ Subrouter(id)
    \/ \E id \in RouteIds : RoomWalk /\ MatcherFunc(id, "flag")
    \/ \E id \in RouteIds, rid \in RouterIds :
          RoomWalk /\ Mountable(id, rid) /\ Handler(id, RouterHandler(rid))
    \/ \E skip \in SUBSET RouteIds, fail \in RouteIds \cup {0} : Walk(1, skip, fail)

SpecWalk == Init /\ [][NextWalk]_vars

\* depth-first, in registration order, each route before the routes of its
\* routers, without the routers of a skipped route
RECURSIVE PreOrder(_, _, _)
PreOrder(rid, skip, ancestors) ==
    Flatten([i \in 1..Len(routers[rid].routes) |->
        LET t == routers[rid].routes[i]
        IN  <<[route |-> t, router |-> rid, ancestors |-> ancestors]>>
            \o (IF t \in skip THEN <<>>
                ELSE Flatten([c \in 1..Len(Children(t)) |->
                         PreOrder(Children(t)[c], skip, Append(ancestors, t))]))])

\* the visits up to the first one of route fail
UpTo(visits, fail) ==
    IF \E n \in 1..Len(visits) : visits[n].route = fail
    THEN SubSeq(visits, 1, CHOOSE n \in 1..Len(visits) :
                              /\ visits[n].route = fail
                              /\ \A n2 \in 1..(n - 1) : visits[n2].route # fail)
    ELSE visits

(* C12: Walk calls the visitor for the routes of the tree depth-first in   *)
(* registration order, each route before the routes of its subrouters and  *)
(* each once, with the route's router and its ancestor routes; the         *)
(* subrouters of a route answered with SkipRouter are left out and Walk    *)
(* goes on and returns nil; another error ends the walk and is returned.   *)
C12_WalkOrder ==
    walked.router # 0 =>
        LET expected == UpTo(PreOrder(walked.router, walked.skip, <<>>), walked.fail)
        IN  /\ walked.visits = expected
            /\ \A n1, n2 \in 1..Len(walked.visits) :
                   walked.visits[n1].route = walked.visits[n2].route => n1 = n2
            /\ \A n \in 1..Len(walked.visits) :
                   walked.visits[n].route \in Range(routers[walked.visits[n].router].routes)
            /\ walked.err = IF \E n \in 1..Len(walked.visits) :
                                   walked.visits[n].route = walked.fail
                            THEN ErrVisitor ELSE NIL

(***************************************************************************)
(* SpecSub: path templates below a subrouter.  Routes get PathPrefix and   *)
(* Path templates, subrouters are made of them, and the subrouters' routes *)
(* get templates of their own; requests carry a path.                      *)
(***************************************************************************)
\* the routes of a run
MaxSubRoutes == 2

\* the routers of a run, the first one included
MaxSubRouters == 2

SubPrefixTemplates == { <<"/", "a">>, <<"/", "a", "/">>, <<"/", "{", "k", "}">> }

SubPathTemplates == { <<>>, <<"/", "x">>, <<"/", "{", "j", "}", "/">> }

SubPaths ==
    { <<"/", "a">>, <<"/", "a", "/">>, <<"/", "a", "/", "x">>, <<"/", "a", "/", "1", "/">>,
      <<"/", "1", "/">>, <<"/", "x", "/", "y", "/">>, <<"/", "x">> }

SubRequests == { TplRequest(p, <<>>) : p \in SubPaths }

\* the route has no path template but the one its router handed down
OwnPathUnset(id) ==
    routes[id].conf.regexp.path = routers[OwnerOf(id)].conf.regexp.path

\* the construction calls of a run build a tree of at most this size
MaxSub == 7

RoomSub == Size < MaxSub

NextSub ==
    \/ \E rid \in RouterIds : RoomSub /\ Len(routes) < MaxSubRoutes /\ NewRoute(rid)
    \/ \E id \in RouteIds, tpl \in SubPrefixTemplates :
          RoomSub /\ OwnPathUnset(id) /\ PathPrefix(id, tpl)
    \/ \E id \in RouteIds, tpl \in SubPathTemplates :
          RoomSub /\ OwnPathUnset(id) /\ Path(id, tpl)
    \/ \E id \in RouteIds : RoomSub /\ Len(routers) < MaxSubRouters /\ Subrouter(id)
    \/ \E id \in RouteIds : RoomSub /\ Handler(id, Base("user", id))
    \/ \E req \in SubRequests : Match(1, req)

SpecSub == Init /\ [][NextSub]_vars

\* route t is a PathPrefix route with one subrouter made after the prefix,
\* and u is a route of that subrouter with a Path template of its own; no
\* route of the subrouter has a subrouter
PrefixedPath(t, u) ==
    /\ routes[t].err = NIL /\ ~routes[t].buildOnly
    /\ Len(routes[t].conf.matchers) = 2
    /\ routes[t].conf.matchers[1].k = "regexp"
    /\ routes[t].conf.matchers[1].rr.regexpType = regexpTypePrefix
    /\ routes[t].conf.matchers[2].k = "router"
    /\ u \in Range(routers[routes[t].conf.matchers[2].router].routes)
    /\ \A w \in Range(routers[routes[t].conf.matchers[2].router].routes) :
          ~HasSubrouter(w)
    /\ routes[u].err = NIL /\ ~routes[u].buildOnly
    /\ Len(routes[u].conf.matchers) = 2
    /\ routes[u].conf.matchers[1] = routes[t].conf.matchers[1]
    /\ routes[u].conf.matchers[2].k = "regexp"
    /\ routes[u].conf.matchers[2].rr.regexpType = regexpTypePath

\* the variables a template of the given type takes from path p
ExtractedBy(tpl, typ, p) ==
    LET rr == newRouteRegexp(tpl, typ, [strictSlash |-> FALSE, useEncodedPath |-> FALSE]).rr
    IN  extractVars(p, FindStringSubmatchIndex(rr.regexp, p).caps, rr.varsN, 1, EmptyMap)

(* C13: the path template of a route of a subrouter made from              *)
(* PathPrefix(P) is P without its trailing slashes followed by the         *)
(* template T the route registered; the route matches a request only if    *)
(* the request path matches that concatenation, and the match then holds   *)
(* the variables of P and of T.                                            *)
C13_SubrouterPathPrefixed ==
    \A t, u \in RouteIds :
        (PrefixedPath(t, u) /\ Len(routers[1].routes) >= 1 /\ routers[1].routes[1] = t) =>
            LET P == routes[t].conf.matchers[1].rr.template
                tpl == routes[u].conf.regexp.path.template
                p == last.req.Path
            IN  /\ \E T \in SubPathTemplates : tpl = TrimRightSlash(P) \o T
                /\ (last.router = 1 /\ last.ok /\ last.match.MatchErr = NIL
                    /\ last.match.Route = u) =>
                      /\ last.by = t
                      /\ ExactMatch(tpl, p)
                      /\ DOMAIN last.match.Vars =
                           Range(routes[t].conf.matchers[1].rr.varsN)
                           \cup Range(routes[u].conf.regexp.path.varsN)
                      /\ \A x \in DOMAIN last.match.Vars :
                            \/ last.match.Vars[x] = ExtractedBy(tpl, regexpTypePath, p)[x]
                            \/ /\ x \in Range(routes[t].conf.matchers[1].rr.varsN)
                               /\ last.match.Vars[x] = ExtractedBy(P, regexpTypePrefix, p)[x]

\* PathPrefix("/a") with a subrouter whose route registers "/{j}/", matched
\* by the request path "/a/1/" with j = 1
C13_Witness ==
    \E t, u \in RouteIds :
        /\ PrefixedPath(t, u) /\ routers[1].routes = <<t>>
        /\ routes[t].conf.matchers[1].rr.template = <<"/", "a">>
        /\ routes[u].conf.regexp.path.template = <<"/", "a", "/", "{", "j", "}", "/">>
        /\ last.router = 1 /\ last.ok /\ last.match.MatchErr = NIL
        /\ last.match.Route = u
        /\ last.req.Path = <<"/", "a", "/", "1", "/">>
        /\ last.match.Vars = [x \in {<<"j">>} |-> <<"1">>]

(* C14: Get(name), called on any router of the tree, returns the route     *)
(* that was given the name, on whichever router that route was registered, *)
(* and nil for a name no route was given.                                  *)
C14_SharedRegistry ==
    got.router # 0 =>
        /\ \A id \in RouteIds : routes[id].name = got.name => got.route = id
        /\ (\A id \in RouteIds : routes[id].name # got.name) => got.route = 0

(***************************************************************************)
(* SpecConc: a tree is constructed by one goroutine; once the first call   *)
(* of Router.Match, Router.ServeHTTP or Route.URL has started,             *)
(* construction is over and the goroutines that serve requests run their   *)
(* calls step by step, in any interleaving.                                *)
(***************************************************************************)
\* the construction calls of a run build a tree of at most this size
MaxConc == 4

\* construction goes on: no call has started, and there is room
Constructing == workers = NoWorkers /\ Size < MaxConc

ConcRequests ==
    {[NoReq EXCEPT !.Method = m, !.flag = TRUE, !.Path = p] :
        m \in {"GET", "POST"}, p \in {<<"/", "1">>, <<"/", "/", "1">>}}

ConcPairs == {<<>>, << <<"k">>, <<"1">> >>}

NextConc ==
    \/ \E rid \in RouterIds : Constructing /\ NewRoute(rid)
    \/ \E id \in RouteIds : Constructing /\ Methods(id, <<"get">>)
    \/ \E id \in RouteIds : Constructing /\ NoPath(id) /\ Path(id, <<"/", "{", "k", "}">>)
    \/ \E id \in RouteIds : Constructing /\ Subrouter(id)
    \/ \E id \in RouteIds : Constructing /\ Handler(id, Base("user", id))
    \/ \E rid \in RouterIds :
          Constructing /\ SetMethodNotAllowedHandler(rid, Base("mna", rid))
    \/ \E w \in Workers, req \in ConcRequests : StartMatch(w, 1, req)
    \/ \E w \in Workers, req \in ConcRequests : StartServeHTTP(w, 1, req)
    \/ \E w \in Workers : StepRoute(w)
    \/ \E w \in Workers, id \in RouteIds, pairs \in ConcPairs : StartURL(w, id, pairs)
    \/ \E w \in Workers : StepURL(w)

SpecConc == Init /\ [][NextConc]_vars

\* the state of the tree: route lists, matcher lists, compiled descriptors,
\* name registries, middleware lists, fallback handlers, route errors
tree == <<routers, routes, maps>>

\* what the call of goroutine w returns when it runs alone on the tree
Alone_Match(w) == RouterMatch(workers[w].router, workers[w].req, NewRouteMatch)

Alone_ServeHTTP(w) == serveHTTP(workers[w].router, workers[w].req)

Alone_URL(w) == urlBuilt(workers[w].route, routeURL(routes[workers[w].route], workers[w].pairs))

\* the call goroutine w has finished returned what it returns alone
SameAsAlone(w) ==
    CASE workers[w].call = "Match" ->
            /\ workers[w].ok = Alone_Match(w).ok
            /\ workers[w].match = Alone_Match(w).m
      [] workers[w].call = "ServeHTTP" -> workers[w].served = Alone_ServeHTTP(w)
      [] workers[w].call = "URL" -> workers[w].built = Alone_URL(w)

\* C15: once construction has finished, under any interleaving of the steps
\* of concurrent Router.Match, ServeHTTP and Route.URL calls, each with its
\* own RouteMatch, no step of a call modifies the state of the router tree,
\* and every finished call has returned what it returns when run alone.
C15_ReadOnlyConcurrent ==
    /\ [](\A w \in Workers : workers[w].pc = "done" => SameAsAlone(w))
    /\ [][workers' # workers => tree' = tree]_vars

\* two calls that ran interleaved, each after the other had started and
\* before it finished, both over a route that fails on its method only, have
\* finished, a Router.Match and a ServeHTTP
C15_Witness ==
    /\ workers[1].pc = "done" /\ workers[1].call = "Match"
    /\ workers[2].pc = "done" /\ workers[2].call = "ServeHTTP"
    /\ workers[1].i > 1 /\ workers[2].i > 1
    /\ workers[1].match.MatchErr = ErrMethodMismatch
    /\ workers[2].match.MatchErr = NIL
    /\ workers[2].served.route # 0

(***************************************************************************)
(* SpecQuery: query templates.  The route of router 1 gets one query       *)
(* template, with an empty value or with a variable as value; requests     *)
(* carry every raw query string of up to MaxQueryLen bytes; a run matches   *)
(* one request against the route as the construction calls left it.        *)
(***************************************************************************)
\* the longest raw query string of a request
MaxQueryLen == 5

\* the bytes of a raw query string: the key q, the separators, and the
\* escapes %0A (newline), %00 and %AA, well-formed or cut short
QueryBytes == {"q", "=", "&", "%", "0", "A"}

RawQueries == UNION {[1..n -> QueryBytes] : n \in 0..MaxQueryLen}

QueryRequests == {TplRequest(<<"/">>, q) : q \in RawQueries}

EmptyValuePairs == { << <<"q">>, <<>> >>, << <<"q">>, <<"{", "v", "}">> >> }

NextQuery ==
    \/ Len(routes) < 1 /\ NewRoute(1)
    \/ \E id \in RouteIds, pairs \in EmptyValuePairs :
          NoQueries(id) /\ Queries(id, pairs)
    \/ last = NoLast /\ \E req \in QueryRequests : Match(1, req)

SpecQuery == Init /\ [][NextQuery]_vars

\* the pairs of a raw query string: its pieces between '&' and ';'
RECURSIVE QueryPieces(_)
QueryPieces(q) ==
    LET i == IndexAmpSemi(q, 1)
    IN  IF i = 0 THEN {q}
        ELSE {SubSeq(q, 1, i - 1)} \cup QueryPieces(SubSeq(q, i + 1, Len(q)))

\* the key of a piece: what stands before its first '=', the whole piece when
\* there is none
PieceKey(piece) ==
    LET j == IndexOf(piece, "=", 1)
    IN  IF j > 0 THEN SubSeq(piece, 1, j - 1) ELSE piece

\* the raw query string contains the key
ContainsKey(q, key) ==
    \E piece \in QueryPieces(q) :
        /\ QueryUnescape(PieceKey(piece)).err = NIL
        /\ QueryUnescape(PieceKey(piece)).s = key

\* the route whose one matcher is the query template key= (empty value)
EmptyValueQuery(id, key) ==
    /\ routes[id].err = NIL
    /\ Len(routes[id].conf.matchers) = 1
    /\ routes[id].conf.matchers[1].k = "regexp"
    /\ routes[id].conf.matchers[1].rr.regexpType = regexpTypeQuery
    /\ routes[id].conf.matchers[1].rr.template = key \o <<"=">>

\* C16: a route whose one matcher is a query template with key K and an
\* empty value matches exactly the requests whose raw query string contains
\* the key K, whatever its value.
C16_EmptyValueQuery ==
    last.router # 0 /\ Len(routes) = 1 /\ EmptyValueQuery(1, <<"q">>)
        => (RouteMatch(1, last.req, NewRouteMatch).ok
               <=> ContainsKey(last.req.RawQuery, <<"q">>))

(***************************************************************************)
(* SpecDispatch: dispatch over a tree with a subrouter.  Routes carry      *)
(* method matchers, custom predicates, handlers and subrouters, routers a  *)
(* MethodNotAllowedHandler; a request goes through Router.Match or through *)
(* Router.ServeHTTP of router 1.                                           *)
(***************************************************************************)
\* the construction calls of a run build a tree of at most this size
MaxDispatch == 7

\* the routes and the routers of a run
MaxDispatchRoutes == 3

MaxDispatchRouters == 2

RoomDispatch == Size < MaxDispatch

NextDispatch ==
    \/ \E rid \in RouterIds :
          RoomDispatch /\ Len(routes) < MaxDispatchRoutes /\ NewRoute(rid)
    \/ \E id \in RouteIds : RoomDispatch /\ Methods(id, <<"get">>)
    \/ \E id \in RouteIds : RoomDispatch /\ MatcherFunc(id, "flag")
    \/ \E id \in RouteIds :
          RoomDispatch /\ Len(routers) < MaxDispatchRouters /\ Subrouter(id)
    \/ \E id \in RouteIds : RoomDispatch /\ Handler(id, Base("user", id))
    \/ \E rid \in RouterIds :
          RoomDispatch /\ SetMethodNotAllowedHandler(rid, Base("mna", rid))
    \/ \E req \in Requests : Match(1, req)
    \/ \E req \in Requests : ServeHTTP(1, req)

SpecDispatch == Init /\ [][NextDispatch]_vars

\* the subrouters a route leads into
SubroutersOf(id) ==
    {routes[id].conf.matchers[i].router :
        i \in {k \in 1..Len(routes[id].conf.matchers) :
                  routes[id].conf.matchers[k].k = "router"}}

\* route i of the router of the last call leads into a subrouter, and nothing
\* but the subrouter keeps it from matching; no route of that subrouter
\* passes all of its matchers, and one of them fails on its method only
MismatchInSubrouter(i) ==
    /\ ~routes[LastRoutes[i]].buildOnly /\ routes[LastRoutes[i]].err = NIL
    /\ \A k \in 1..Len(routes[LastRoutes[i]].conf.matchers) :
          routes[LastRoutes[i]].conf.matchers[k].k # "router"
             => Accepts(routes[LastRoutes[i]].conf.matchers[k], last.req)
    /\ \E s \in SubroutersOf(LastRoutes[i]) :
          /\ Selected(s, last.req) = 0
          /\ \E u \in Range(routers[s].routes) :
                ~HasSubrouter(u) /\ MethodOnlyFail(u, last.req)

\* the later route of C17: it has a handler and passes all of its matchers,
\* no route before it does, and an earlier route leads into a subrouter in
\* which a route fails on its method only
LaterSibling(j) ==
    /\ ~IsNilHandler(routes[LastRoutes[j]].handler)
    /\ ~HasSubrouter(LastRoutes[j])
    /\ PassesAll(LastRoutes[j], last.req)
    /\ \A i \in 1..(j - 1) : ~Passes(LastRoutes[i], last.req)
    /\ \E i \in 1..(j - 1) : MismatchInSubrouter(i)

\* C17: when a route inside the subrouter of an earlier route fails on its
\* method matcher only, and a later sibling route of the parent router has a
\* handler and passes all of its matchers, the top-level Router.Match returns
\* true with the later route and its handler and a nil MatchErr, also when
\* the subrouter has a MethodNotAllowedHandler of its own.
C17_MismatchAcrossSubrouters ==
    last.router = 1 =>
        \A j \in 1..Len(LastRoutes) :
            LaterSibling(j) =>
                /\ last.ok
                /\ last.match.Route = LastRoutes[j]
                /\ last.match.Handler.base = routes[LastRoutes[j]].handler.base
                /\ last.match.MatchErr = NIL

(***************************************************************************)
(* The coherence of the result of Router.Match (Spec).                     *)
(***************************************************************************)
\* every matcher of the route other than a subrouter accepts the request
OwnMatchersPass(id, req) ==
    /\ ~routes[id].buildOnly /\ routes[id].err = NIL
    /\ \A k \in 1..Len(routes[id].conf.matchers) :
          routes[id].conf.matchers[k].k # "router"
             => Accepts(routes[id].conf.matchers[k], req)

\* the results a dispatch through router rid may end with: a route below the
\* router whose own matchers, and those of each route above it up to the
\* router, accept the request, with the handlers of the routes on that line
RECURSIVE Coherent(_, _)
Coherent(rid, req) ==
    UNION { LET t == routers[rid].routes[i]
            IN  IF OwnMatchersPass(t, req)
                THEN {[route |-> t, handlers |-> {routes[t].handler.base}]}
                     \cup {[route |-> c.route,
                            handlers |-> c.handlers \cup {routes[t].handler.base}] :
                              c \in UNION {Coherent(s, req) : s \in SubroutersOf(t)}}
                ELSE {}
            : i \in 1..Len(routers[rid].routes) }

\* C18: whenever a top-level Router.Match returns true with a nil MatchErr,
\* match.Route is a route whose matchers, and the matchers of each of its
\* ancestor routes, accept the request, and match.Handler is the handler of
\* a route on that line, possibly wrapped by middleware; what a subrouter
\* candidate wrote into the result before its owning route failed is not
\* what the dispatch ends with.
C18_CoherentResult ==
    (last.router = 1 /\ last.ok /\ last.match.MatchErr = NIL) =>
        \E c \in Coherent(1, last.req) :
            /\ last.match.Route = c.route
            /\ last.match.Handler.base \in c.handlers

(***************************************************************************)
(* Strict slash and PathPrefix templates (SpecTpl).                        *)
(***************************************************************************)
\* the route holds a PathPrefix template it was given while strictSlash was
\* true
StrictPrefix(id) ==
    /\ routes[id].err = NIL
    /\ routes[id].conf.strictSlash
    /\ ~IsNilRR(routes[id].conf.regexp.path)
    /\ routes[id].conf.regexp.path.regexpType = regexpTypePrefix

\* a route whose one matcher is the PathPrefix template it was given
PrefixOnly(id) ==
    /\ routes[id].err = NIL /\ ~routes[id].buildOnly
    /\ Len(routes[id].conf.matchers) = 1
    /\ routes[id].conf.matchers[1].k = "regexp"
    /\ routes[id].conf.matchers[1].rr.regexpType = regexpTypePrefix

\* the template compiled as kind typ with strictSlash as given
CompiledAs(tpl, typ, strictSlash) ==
    newRouteRegexp(tpl, typ, [strictSlash |-> strictSlash, useEncodedPath |-> FALSE]).rr

\* route id is a lone-matcher strict-slash PathPrefix route whose template
\* ends in '/', and the path of the request of the last Match call is the
\* template's instance without that slash
PrefixWithoutSlash(id) ==
    /\ last.router # 0
    /\ StrictPrefix(id) /\ PrefixOnly(id)
    /\ HasSuffix(routes[id].conf.regexp.path.template, "/")
    /\ ExactMatch(routes[id].conf.regexp.path.template, last.req.Path \o <<"/">>)

RECURSIVE RoutesUnder(_)
RoutesUnder(rid) ==
    UNION { {routers[rid].routes[i]}
            \cup UNION {RoutesUnder(s) : s \in SubroutersOf(routers[rid].routes[i])}
            : i \in 1..Len(routers[rid].routes) }

\* the routes at and below a route
RoutesAtOrBelow(id) == {id} \cup UNION {RoutesUnder(s) : s \in SubroutersOf(id)}

\* a RouteMatch on which ErrMethodMismatch has been recorded
Mismatched == [NewRouteMatch EXCEPT !.MatchErr = ErrMethodMismatch]

\* the route passes all of its matchers for the request: its Route.Match
\* returns true, on a fresh RouteMatch or on one that carries the mismatch
MatchesFully(id, req) ==
    RouteMatch(id, req, NewRouteMatch).ok \/ RouteMatch(id, req, Mismatched).ok

\* no route of the set has a handler and passes all of its matchers
NoHandlerMatches(ids, req) ==
    \A w \in ids : IsNilHandler(routes[w].handler) \/ ~MatchesFully(w, req)

\* ErrMethodMismatch is on the result when one of the routes of the router,
\* tried in order from route i, has returned
RECURSIVE MismatchRecorded(_, _, _, _)
MismatchRecorded(rid, req, match, i) ==
    IF i > Len(routers[rid].routes) THEN FALSE
    ELSE LET res == RouteMatch(routers[rid].routes[i], req, match)
         IN  \/ res.m.MatchErr = ErrMethodMismatch
             \/ ~res.ok /\ MismatchRecorded(rid, req, res.m, i + 1)

\* the dispatch of the request through router 1 records ErrMethodMismatch,
\* and no route with a handler passes all of its matchers
MismatchStands(req) ==
    /\ MismatchRecorded(1, req, NewRouteMatch, 1)
    /\ NoHandlerMatches(RoutesUnder(1), req)

\* the handlers that answer 405: the package's own, and a router's
\* MethodNotAllowedHandler
Answers405(handler) ==
    \/ handler = methodNotAllowedHandler
    \/ \E rid \in RouterIds :
          /\ ~IsNilHandler(routers[rid].MethodNotAllowedHandler)
          /\ handler = routers[rid].MethodNotAllowedHandler

=============================================================================
